---- MODULE Spec2Model ----
(***************************************************************************)
(* Conversational intake state machine of the listing-support bot:         *)
(* app.py (message handlers), core/session_manager.py (session entity and  *)
(* store), core/text_parser.py (field extraction), models/product.py       *)
(* (measurement completeness) and core/feature_refiner.py (refinement).    *)
(*                                                                         *)
(* A text message is a sequence of characters.  An ASCII character is the  *)
(* one-character string itself; a non-ASCII character is written as its    *)
(* upper-case reading, e.g. <<"RI","SE","TSU","TO">> is the katakana word  *)
(* for "reset", "FW8" is the full-width digit eight, "FWSP" the full-width *)
(* space (U+3000) and "FWCOLON" the full-width colon.                      *)
(***************************************************************************)
EXTENDS Integers, Sequences, FiniteSets, TLC

VARIABLES
    sessions,   \* SessionManager._sessions: user id -> stored session, None when absent
    now,        \* time.time(), in seconds
    last,       \* the message handled last and what the user and the collaborators saw of it
    pending,    \* user id -> the handler of that user waiting in a call of the vision service
    calc        \* the pure function being applied, its argument and, once it returned, its result

vars == <<sessions, now, last, pending, calc>>

---------------------------------------------------------------------------
(* Bounds of the model *)

\* number of clock steps the model lets pass
MaxTicks == 2
\* seconds that pass in one clock step
TickSeconds == 1000
\* longest image list a session accumulates in the model
MaxImages == 2

(* Program constants *)

\* Config.SESSION_TIMEOUT_MINUTES (default of the environment variable)
SESSION_TIMEOUT_MINUTES == 30

Users == {"U1"}
MessageIds == {"m1", "m2"}

---------------------------------------------------------------------------
(* Optional values: None is the empty tuple, a present value v is <<v>> *)

None == << >>
Some(v) == <<v>>
Val(o) == o[1]

\* Python truthiness of an Optional[int]: None and 0 are false
TruthyInt(o) == o # None /\ Val(o) # 0
\* Python truthiness of an Optional[str]: None and "" are false
TruthyStr(o) == o # None /\ Val(o) # << >>

---------------------------------------------------------------------------
(* Characters *)

AsciiDigits == <<"0", "1", "2", "3", "4", "5", "6", "7", "8", "9">>
FullWidthDigits == <<"FW0", "FW1", "FW2", "FW3", "FW4", "FW5", "FW6", "FW7", "FW8", "FW9">>

IsAsciiDigit(c) == \E i \in 1..10 : AsciiDigits[i] = c
IsFullWidthDigit(c) == \E i \in 1..10 : FullWidthDigits[i] = c
\* \d of a str pattern matches every Unicode decimal digit
IsDigit(c) == IsAsciiDigit(c) \/ IsFullWidthDigit(c)
\* int() of one decimal digit, ASCII or full-width
DigitValue(c) ==
    IF IsAsciiDigit(c) THEN (CHOOSE i \in 1..10 : AsciiDigits[i] = c) - 1
    ELSE (CHOOSE i \in 1..10 : FullWidthDigits[i] = c) - 1

\* str.isspace(): the characters str.strip() removes and \s matches
IsSpace(c) == c \in {" ", "\n", "\t", "FWSP"}

UpperLetters == <<"A", "B", "C", "D", "E", "F", "G", "H", "I", "J", "K", "L", "M",
                  "N", "O", "P", "Q", "R", "S", "T", "U", "V", "W", "X", "Y", "Z">>
LowerLetters == <<"a", "b", "c", "d", "e", "f", "g", "h", "i", "j", "k", "l", "m",
                  "n", "o", "p", "q", "r", "s", "t", "u", "v", "w", "x", "y", "z">>

\* str.lower() of one character
LowerChar(c) ==
    IF \E i \in 1..26 : UpperLetters[i] = c
    THEN LowerLetters[CHOOSE i \in 1..26 : UpperLetters[i] = c]
    ELSE c
\* str.upper() of one character
UpperChar(c) ==
    IF \E i \in 1..26 : LowerLetters[i] = c
    THEN UpperLetters[CHOOSE i \in 1..26 : LowerLetters[i] = c]
    ELSE c

Lower(text) == [i \in 1..Len(text) |-> LowerChar(text[i])]
Upper(text) == [i \in 1..Len(text) |-> UpperChar(text[i])]

\* str.strip(): drop leading and trailing whitespace
Strip(text) ==
    LET nonsp == {i \in 1..Len(text) : ~IsSpace(text[i])}
    IN  IF nonsp = {} THEN << >>
        ELSE LET lo == CHOOSE i \in nonsp : \A j \in nonsp : i <= j
                 hi == CHOOSE i \in nonsp : \A j \in nonsp : j <= i
             IN  SubSeq(text, lo, hi)

\* str.split("\n")
RECURSIVE SplitLines(_)
SplitLines(text) ==
    LET nl == {i \in 1..Len(text) : text[i] = "\n"}
    IN  IF nl = {} THEN <<text>>
        ELSE LET k == CHOOSE i \in nl : \A j \in nl : i <= j
             IN  <<SubSeq(text, 1, k - 1)>> \o SplitLines(SubSeq(text, k + 1, Len(text)))

\* the keyword kw occurs in text at position i
MatchAt(text, i, kw) ==
    /\ i >= 1
    /\ i + Len(kw) - 1 <= Len(text)
    /\ \A k \in 1..Len(kw) : text[i + k - 1] = kw[k]

\* "kw in text"
Contains(text, kw) == \E i \in 1..(Len(text) + 1) : MatchAt(text, i, kw)

\* end of the maximal digit run that starts at position i (i - 1 when there is none)
RECURSIVE DigitRunEnd(_, _)
DigitRunEnd(text, i) ==
    IF i <= Len(text) /\ IsDigit(text[i]) THEN DigitRunEnd(text, i + 1) ELSE i - 1

\* int() of a run of decimal digits
RECURSIVE IntOf(_)
IntOf(digits) ==
    IF digits = << >> THEN 0
    ELSE 10 * IntOf(SubSeq(digits, 1, Len(digits) - 1)) + DigitValue(digits[Len(digits)])

\* str() of a non-negative int
RECURSIVE StrOf(_)
StrOf(n) ==
    IF n < 10 THEN <<AsciiDigits[n + 1]>>
    ELSE StrOf(n \div 10) \o <<AsciiDigits[(n % 10) + 1]>>

\* re.findall(r'\d+', text) followed by int(): the values of the digit runs, left to right
RECURSIVE FindAllNumbers(_, _)
FindAllNumbers(text, i) ==
    IF i > Len(text) THEN << >>
    ELSE IF IsDigit(text[i])
         THEN LET e == DigitRunEnd(text, i)
              IN  <<IntOf(SubSeq(text, i, e))>> \o FindAllNumbers(text, e + 1)
         ELSE FindAllNumbers(text, i + 1)

---------------------------------------------------------------------------
(* models/product.py: Measurements *)

TopsFields == <<"length", "width", "shoulder", "sleeve">>
PantsFields == <<"waist", "inseam", "hem_width", "rise">>

\* Measurements(): every field None
EmptyMeasurements ==
    [length |-> None, width |-> None, shoulder |-> None, sleeve |-> None,
     waist |-> None, inseam |-> None, hem_width |-> None, rise |-> None]

\* all([...]) over the four upper-body fields: None and 0 both count as missing
has_tops_measurements(m) == \A i \in 1..4 : TruthyInt(m[TopsFields[i]])

\* all([...]) over the four lower-body fields
has_pants_measurements(m) == \A i \in 1..4 : TruthyInt(m[PantsFields[i]])

---------------------------------------------------------------------------
(* core/text_parser.py: TextParser *)

\* text.translate(full-width digits -> ASCII digits)
TranslateDigits(text) ==
    [i \in 1..Len(text) |->
        IF IsFullWidthDigit(text[i]) THEN AsciiDigits[DigitValue(text[i]) + 1] ELSE text[i]]

\* text.replace(full-width space, ' ')
ReplaceFullWidthSpace(text) ==
    [i \in 1..Len(text) |-> IF text[i] = "FWSP" THEN " " ELSE text[i]]

\* a faulty parse_simple_numbers: with fewer digit runs than count the runs are used again
\* from the first
parse_simple_numbers_wrapping(text, count) ==
    LET numbers == FindAllNumbers(ReplaceFullWidthSpace(TranslateDigits(text)), 1)
    IN  [i \in 1..count |-> IF numbers = << >> THEN None
                            ELSE Some(numbers[((i - 1) % Len(numbers)) + 1])]

\* parse_simple_numbers: the first count digit runs as ints, None where the text has fewer
parse_simple_numbers(text, count) ==
    LET numbers == FindAllNumbers(ReplaceFullWidthSpace(TranslateDigits(text)), 1)
    IN  [i \in 1..count |-> IF i <= Len(numbers) THEN Some(numbers[i]) ELSE None]

\* the separator class [: \s full-width-colon] of the keyword patterns
MeasurementSeps == {":", "FWCOLON", " ", "\n", "\t", "FWSP"}
\* the separator class of the management-No pattern, which adds '.'
ManagementNoSeps == MeasurementSeps \cup {"."}

\* first position at or after i whose character is not in seps
RECURSIVE SkipSeps(_, _, _)
SkipSeps(text, i, seps) ==
    IF i <= Len(text) /\ text[i] \in seps THEN SkipSeps(text, i + 1, seps) ELSE i

\* pattern.search(text) for  kw seps* (\d+)  under re.IGNORECASE, kw ranging over kws:
\* the digit run captured by the leftmost match, None when nothing matches
SearchKeywordDigits(text, kws, seps) ==
    LET t == Lower(text)
        Hit(i, kw) ==
            /\ MatchAt(t, i, Lower(kw))
            /\ LET d == SkipSeps(t, i + Len(kw), seps)
               IN  d <= Len(t) /\ IsDigit(t[d])
        starts == {i \in 1..Len(t) : \E kw \in kws : Hit(i, kw)}
    IN  IF starts = {} THEN None
        ELSE LET i == CHOOSE x \in starts : \A y \in starts : x <= y
                 kw == CHOOSE k \in kws : Hit(i, k)
                 d == SkipSeps(t, i + Len(kw), seps)
             IN  Some(SubSeq(t, d, DigitRunEnd(t, d)))

\* MEASUREMENT_PATTERNS: the keyword of each field
MeasurementKeyword(f) ==
    CASE f = "length" -> <<"CHAKU", "TAKE">>
      [] f = "width" -> <<"MI", "HABA">>
      [] f = "shoulder" -> <<"KATA", "HABA">>
      [] f = "sleeve" -> <<"SODE", "TAKE">>
      [] f = "waist" -> <<"UU", "EE", "SU", "TO">>
      [] f = "inseam" -> <<"MATA", "SHITA">>
      [] f = "hem_width" -> <<"SUSO", "HABA">>
      [] f = "rise" -> <<"MATA", "UE">>

\* parse_measurements: each field from its keyword pattern, independently
parse_measurements(text) ==
    [f \in DOMAIN EmptyMeasurements |->
        LET m == SearchKeywordDigits(text, {MeasurementKeyword(f)}, MeasurementSeps)
        IN  IF m = None THEN None ELSE Some(IntOf(Val(m)))]

\* first element of a sequence of options that is present, None when none is
RECURSIVE FirstSome(_)
FirstSome(opts) ==
    IF opts = << >> THEN None
    ELSE IF Head(opts) # None THEN Head(opts) ELSE FirstSome(Tail(opts))

\* PURCHASE_PRICE_PATTERNS, in order; the optional characters are spelled out
PurchasePriceKeywords ==
    << {<<"SHI", "NYUU", "ATAI">>, <<"SHI", "NYUU", "re", "ATAI">>,
        <<"SHI", "NYUU", "ATAI", "KAKU">>, <<"SHI", "NYUU", "re", "ATAI", "KAKU">>},
       {<<"SHI", "NYUU">>},
       {<<"KOU", "NYUU", "ATAI">>, <<"KOU", "NYUU", "ATAI", "KAKU">>},
       {<<"GEN", "ATAI">>} >>

\* parse_purchase_price: int of the first pattern that matches
parse_purchase_price(text) ==
    LET m == FirstSome([p \in 1..4 |->
                 SearchKeywordDigits(text, PurchasePriceKeywords[p], MeasurementSeps)])
    IN  IF m = None THEN None ELSE Some(IntOf(Val(m)))

\* parse_management_id: the digit string of the first MANAGEMENT_ID_PATTERNS entry that matches
parse_management_id(text) ==
    FirstSome(<<
        SearchKeywordDigits(text, {<<"KUDA", "KOTOWARI", "BAN", "GOU">>,
                                   <<"SHOU", "HIN", "KUDA", "KOTOWARI", "BAN", "GOU">>},
                            MeasurementSeps),
        SearchKeywordDigits(text, {<<"KUDA", "KOTOWARI", "N", "o">>}, ManagementNoSeps),
        SearchKeywordDigits(text, {<<"I", "D">>}, MeasurementSeps) >>)

\* GENDER_PATTERNS, in dictionary order: label and keywords
GenderLabels == << <<"ME", "NN", "ZU">>, <<"RE", "DE", "XI", "CHOON", "SU">>,
                   <<"YU", "NI", "SE", "XTSU", "KU", "SU">> >>
GenderKeywords ==
    << {<<"ME", "NN", "ZU">>, <<"DAN", "SEI">>, <<"M", "E", "N">>},
       {<<"RE", "DE", "XI", "CHOON", "SU">>, <<"JO", "SEI">>, <<"W", "O", "M", "E", "N">>,
        <<"L", "A", "D", "I", "E", "S">>},
       {<<"YU", "NI", "SE", "XTSU", "KU", "SU">>, <<"DAN", "JO", "KEN", "YOU">>,
        <<"U", "N", "I", "S", "E", "X">>} >>

\* parse_gender: label of the first pattern found anywhere in the text (re.IGNORECASE)
parse_gender(text) ==
    FirstSome([g \in 1..3 |->
        IF \E kw \in GenderKeywords[g] : Contains(Lower(text), Lower(kw))
        THEN Some(GenderLabels[g]) ELSE None])

\* \w of a str pattern: letters of any script, digits and the underscore
IsWordChar(c) == ~IsSpace(c) /\ c \notin {":", "FWCOLON", ".", ",", "-", "/"}

\* the size codes of SIZE_PATTERNS[1], in alternation order
SizeCodes == << <<"X", "X", "S">>, <<"X", "S">>, <<"S">>, <<"M">>, <<"L">>, <<"X", "L">>,
                <<"X", "X", "L">>, <<"2", "X", "L">>, <<"3", "X", "L">>,
                <<"F", "R", "E", "E">>, <<"F">> >>
FreeLabel == <<"FU", "RI", "CHOON">>

\* \b(code)\b matches at position i of t (t upper-cased)
SizeCodeAt(t, i, code) ==
    /\ MatchAt(t, i, code)
    /\ (i = 1 \/ ~IsWordChar(t[i - 1]))
    /\ (i + Len(code) > Len(t) \/ ~IsWordChar(t[i + Len(code)]))

\* parse_size: the free-size keyword first, then the leftmost bounded size code
parse_size(text) ==
    IF Contains(text, FreeLabel) THEN Some(FreeLabel)
    ELSE LET t == Upper(text)
             starts == {i \in 1..Len(t) : \E c \in 1..Len(SizeCodes) : SizeCodeAt(t, i, SizeCodes[c])}
         IN  IF starts = {} THEN None
             ELSE LET i == CHOOSE x \in starts : \A y \in starts : x <= y
                      c == CHOOSE x \in 1..Len(SizeCodes) :
                              /\ SizeCodeAt(t, i, SizeCodes[x])
                              /\ \A y \in 1..(x - 1) : ~SizeCodeAt(t, i, SizeCodes[y])
                      size == SizeCodes[c]
                  IN  IF size \in {<<"F", "R", "E", "E">>, <<"F">>} THEN Some(FreeLabel)
                      ELSE Some(size)

\* leftmost position where n digits are followed by the suffix; 0 when there is none
SearchDigitsSuffix(text, n, suffix) ==
    LET starts == {i \in 1..Len(text) :
                      /\ i + n - 1 <= Len(text)
                      /\ \A k \in 0..(n - 1) : IsDigit(text[i + k])
                      /\ MatchAt(text, i + n, suffix)}
    IN  IF starts = {} THEN 0 ELSE CHOOSE x \in starts : \A y \in starts : x <= y

EraSuffix == <<"NEN", "DAI">>

\* parse_era: ERA_PATTERNS in order; a 2-digit capture gives "NNs", a 4-digit one NNNN + era suffix
parse_era(text) ==
    LET t == Lower(text)
        p1 == SearchDigitsSuffix(t, 2, <<"s">>)
        p2 == SearchDigitsSuffix(t, 4, EraSuffix)
        p3 == SearchDigitsSuffix(t, 2, EraSuffix)
    IN  IF p1 # 0 THEN Some(SubSeq(t, p1, p1 + 1) \o <<"s">>)
        ELSE IF p2 # 0 THEN Some(SubSeq(t, p2, p2 + 3) \o EraSuffix)
        ELSE IF p3 # 0 THEN Some(SubSeq(t, p3, p3 + 1) \o <<"s">>)
        ELSE None

\* parse_all: the verbose keyworded parse
parse_all(text) ==
    [measurements |-> parse_measurements(text),
     purchase_price |-> parse_purchase_price(text),
     management_id |-> parse_management_id(text),
     gender |-> parse_gender(text),
     size |-> parse_size(text),
     era |-> parse_era(text),
     raw_text |-> text]

\* parse_measurements_simple: digit runs assigned positionally in the category's field order
parse_measurements_simple(text, category) ==
    IF category = "PANTS"
    THEN LET numbers == parse_simple_numbers(text, 4)
         IN  [EmptyMeasurements EXCEPT !.waist = numbers[1], !.inseam = numbers[2],
                                       !.hem_width = numbers[3], !.rise = numbers[4]]
    ELSE IF category = "SETUP"
    THEN LET numbers == parse_simple_numbers(text, 8)
         IN  [length |-> numbers[1], width |-> numbers[2], shoulder |-> numbers[3],
              sleeve |-> numbers[4], waist |-> numbers[5], inseam |-> numbers[6],
              hem_width |-> numbers[7], rise |-> numbers[8]]
    ELSE LET numbers == parse_simple_numbers(text, 4)
         IN  [EmptyMeasurements EXCEPT !.length = numbers[1], !.width = numbers[2],
                                       !.shoulder = numbers[3], !.sleeve = numbers[4]]

---------------------------------------------------------------------------
(* core/feature_refiner.py: FeatureRefiner *)

\* PricingStrategy members, in STRATEGY_PATTERNS order
Strategies == <<"HIGH_PROFIT", "BALANCED", "QUICK_SALE">>

\* STRATEGY_PATTERNS: ^[Aa1]$ | phrase, per strategy
StrategyTokens == << {"A", "a", "1"}, {"B", "b", "2"}, {"C", "c", "3"} >>
StrategyPhrases == << <<"TAKAI", "KIKU", "EKI">>, <<"BA", "RA", "NN", "SU">>, <<"KAI", "TEN">> >>

\* pattern.search(line) of the k-th strategy pattern
StrategyMatches(line, k) ==
    \/ Len(line) = 1 /\ line[1] \in StrategyTokens[k]
    \/ Contains(line, StrategyPhrases[k])

\* a faulty inner loop: a strategy once chosen stays
LineStrategy_first_wins(line, strategy) ==
    IF strategy # None THEN strategy
    ELSE IF StrategyMatches(line, 3) THEN Some(Strategies[3])
    ELSE IF StrategyMatches(line, 2) THEN Some(Strategies[2])
    ELSE IF StrategyMatches(line, 1) THEN Some(Strategies[1])
    ELSE strategy

\* the inner loop over STRATEGY_PATTERNS: every matching pattern assigns, so the last one stays
LineStrategy(line, strategy) ==
    IF StrategyMatches(line, 3) THEN Some(Strategies[3])
    ELSE IF StrategyMatches(line, 2) THEN Some(Strategies[2])
    ELSE IF StrategyMatches(line, 1) THEN Some(Strategies[1])
    ELSE strategy

\* FIELD_MAPPING
FIELD_MAPPING == <<"brand", "category", "item_type", "gender", "size", "color", "design", "era">>

\* MODIFICATION_PATTERN.match(line): ^(\d+)\s+(.+)$ ; the pair <<field_num, value>> or None
MatchModification(line) ==
    LET e == DigitRunEnd(line, 1)
        v == SkipSeps(line, e + 1, {" ", "\n", "\t", "FWSP"})
    IN  IF e >= 1 /\ v > e + 1 /\ v <= Len(line)
        THEN Some(<<IntOf(SubSeq(line, 1, e)), Strip(SubSeq(line, v, Len(line)))>>)
        ELSE None

\* the edit map after one more line
LineModifications(line, modifications) ==
    LET m == MatchModification(line)
    IN  IF m # None /\ Val(m)[1] \in 1..Len(FIELD_MAPPING)
        THEN (FIELD_MAPPING[Val(m)[1]] :> Val(m)[2]) @@ modifications
        ELSE modifications

\* the loop of parse_input over the lines, carrying the edit map and the strategy
RECURSIVE ParseLines(_, _, _)
ParseLines(lines, modifications, strategy) ==
    IF lines = << >> THEN <<modifications, strategy>>
    ELSE LET line == Strip(Head(lines))
         IN  IF line = << >> THEN ParseLines(Tail(lines), modifications, strategy)
             ELSE ParseLines(Tail(lines), LineModifications(line, modifications),
                             LineStrategy(line, strategy))

\* the empty edit map
NoModifications == [f \in {} |-> << >>]

\* parse_input: (edit map or None, strategy or None)
parse_input(text) ==
    LET r == ParseLines(SplitLines(Strip(text)), NoModifications, None)
    IN  [modifications |-> IF DOMAIN r[1] = {} THEN None ELSE Some(r[1]),
         strategy |-> r[2]]

\* Category labels and CATEGORY_MAPPING
CategoryLabel(c) ==
    CASE c = "TOPS" -> <<"TO", "XTSU", "PU", "SU">>
      [] c = "PANTS" -> <<"PA", "NN", "TSU">>
      [] c = "SETUP" -> <<"SE", "XTSU", "TO", "AA", "XTSU", "PU">>
Categories == {"TOPS", "PANTS", "SETUP"}

\* the values a design edit treats as "no design"
DesignNoneWords == { <<"na", "shi">>, <<"TOKU", "ni", "na", "shi">>, <<"MU", "shi">>,
                     <<"n", "u", "l", "l">>, <<"N", "o", "n", "e">> }

\* a faulty assignment: a category value that is no label falls back to the first category
ApplyOneDefaultingCategory(features, field_name, value) ==
    IF field_name = "category"
    THEN IF \E c \in Categories : CategoryLabel(c) = value
         THEN [features EXCEPT !.category = CHOOSE c \in Categories : CategoryLabel(c) = value]
         ELSE [features EXCEPT !.category = "TOPS"]
    ELSE IF field_name = "design"
    THEN [features EXCEPT !.design = IF value \in DesignNoneWords THEN None ELSE Some(value)]
    ELSE IF field_name = "era"
    THEN [features EXCEPT !.era = Some(value)]
    ELSE [features EXCEPT ![field_name] = value]

\* a faulty assignment: the edited value is appended to the one the field holds
ApplyOneAccumulating(features, field_name, value) ==
    IF field_name = "category"
    THEN IF \E c \in Categories : CategoryLabel(c) = value
         THEN [features EXCEPT !.category = CHOOSE c \in Categories : CategoryLabel(c) = value]
         ELSE features
    ELSE IF field_name = "design"
    THEN [features EXCEPT !.design = IF value \in DesignNoneWords THEN None ELSE Some(value)]
    ELSE IF field_name = "era"
    THEN [features EXCEPT !.era = Some(value)]
    ELSE [features EXCEPT ![field_name] = @ \o value]

\* the assignment apply_modifications makes for one edited field
ApplyOne(features, field_name, value) ==
    IF field_name = "category"
    THEN IF \E c \in Categories : CategoryLabel(c) = value
         THEN [features EXCEPT !.category = CHOOSE c \in Categories : CategoryLabel(c) = value]
         ELSE features
    ELSE IF field_name = "design"
    THEN [features EXCEPT !.design = IF value \in DesignNoneWords THEN None ELSE Some(value)]
    ELSE IF field_name = "era"
    THEN [features EXCEPT !.era = Some(value)]
    ELSE [features EXCEPT ![field_name] = value]

\* apply_modifications: every entry of the edit map, each on its own field
RECURSIVE ApplyFields(_, _, _)
ApplyFields(features, modifications, k) ==
    IF k > Len(FIELD_MAPPING) THEN features
    ELSE ApplyFields(IF FIELD_MAPPING[k] \in DOMAIN modifications
                     THEN ApplyOne(features, FIELD_MAPPING[k], modifications[FIELD_MAPPING[k]])
                     ELSE features,
                     modifications, k + 1)

apply_modifications(features, modifications) == ApplyFields(features, modifications, 1)

---------------------------------------------------------------------------
(* integrations/sheets_client.py: SheetsClient, the ledger *)

\* HEADERS[0], the first cell of the header row
HeaderId == <<"KANRI", "BANGOU">>
HeaderRow == [management_id |-> HeaderId, purchase_price |-> <<"SHIIRE">>, status |-> "header",
              sale |-> None]

\* a row save_product appended: the id and the purchase price as the cells' text
LedgerRow(management_id, purchase_price) ==
    [management_id |-> management_id, purchase_price |-> purchase_price, status |-> "listed",
     sale |-> None]

\* _ensure_headers: a sheet without the header row gets one inserted at the top
ensure_headers(worksheet) ==
    IF worksheet = << >> \/ worksheet[1].management_id # HeaderId
    THEN <<HeaderRow>> \o worksheet
    ELSE worksheet

\* the text is what float() reads as a number here: digits, or digits "." digits
IntegerPart(s) ==
    IF \E i \in 1..Len(s) : s[i] = "."
    THEN SubSeq(s, 1, (CHOOSE i \in 1..Len(s) : s[i] = "." /\ \A j \in 1..(i - 1) : s[j] # ".") - 1)
    ELSE s
FractionPart(s) == SubSeq(s, Len(IntegerPart(s)) + 2, Len(s))
IsNumberText(s) ==
    /\ IntegerPart(s) # << >>
    /\ \A i \in 1..Len(IntegerPart(s)) : IsDigit(IntegerPart(s)[i])
    /\ \A i \in 1..Len(FractionPart(s)) : IsDigit(FractionPart(s)[i])
    /\ Len(IntegerPart(s)) < Len(s) => FractionPart(s) # << >>

\* int(float(value)), and str(value).strip() when that raises ValueError: an id is
\* compared as a number when it reads as one and as text otherwise
NormalizeId(value) ==
    IF IsNumberText(Strip(value))
    THEN <<"int", StrOf(IntOf(IntegerPart(Strip(value))))>>
    ELSE <<"str", Strip(value)>>

\* the loop over column A: the number of the first row below the header whose id equals
\* the target, 0 when there is none
FindRow(worksheet, target_id) ==
    IF \E i \in 2..Len(worksheet) : NormalizeId(worksheet[i].management_id) = target_id
    THEN CHOOSE i \in 2..Len(worksheet) :
             /\ NormalizeId(worksheet[i].management_id) = target_id
             /\ \A j \in 2..(i - 1) : NormalizeId(worksheet[j].management_id) # target_id
    ELSE 0

\* a faulty commission: the tenth rounded up
SaleCommissionRoundedUp(sale_price) == (sale_price + 9) \div 10

\* int(sale_price * 0.1); the float product truncates to the integer tenth for every
\* price from 0 to 5,000,000
SaleCommission(sale_price) == sale_price \div 10

\* the dictionary update_sale_info returns
SaleInfo(purchase_price, sale_price, shipping_cost, commission) ==
    [purchase_price |-> purchase_price, sale_price |-> sale_price,
     shipping_cost |-> shipping_cost, commission |-> commission,
     profit |-> sale_price - purchase_price - shipping_cost - commission]

\* the update_cell calls on the row: status, sale price, shipping, commission, profit
MarkSold(worksheet, row_num, info) ==
    [worksheet EXCEPT ![row_num] = [@ EXCEPT !.status = "sold", !.sale = Some(info)]]

\* the part of update_sale_info after the row was found
UpdateRow(worksheet, row_num, sale_price, shipping_cost) ==
    IF row_num = 0
    THEN [success |-> FALSE, sale_info |-> None, worksheet |-> worksheet]
    ELSE [success |-> TRUE,
          sale_info |-> Some(SaleInfo(IF worksheet[row_num].purchase_price # << >>
                                      THEN IntOf(worksheet[row_num].purchase_price) ELSE 0,
                                      sale_price, shipping_cost, SaleCommission(sale_price))),
          worksheet |-> MarkSold(worksheet, row_num,
                           SaleInfo(IF worksheet[row_num].purchase_price # << >>
                                    THEN IntOf(worksheet[row_num].purchase_price) ELSE 0,
                                    sale_price, shipping_cost, SaleCommission(sale_price)))]

\* update_sale_info on the sheet with its header
FindAndUpdate(worksheet, management_id, sale_price, shipping_cost) ==
    UpdateRow(worksheet, FindRow(worksheet, NormalizeId(management_id)), sale_price, shipping_cost)

\* update_sale_info: api is "raise" when the sheet cannot be read, and then nothing is
\* written
update_sale_info(worksheet, management_id, sale_price, shipping_cost, api) ==
    IF api = "raise"
    THEN [success |-> FALSE, sale_info |-> None, worksheet |-> worksheet]
    ELSE FindAndUpdate(ensure_headers(worksheet), management_id, sale_price, shipping_cost)

---------------------------------------------------------------------------
(* config.py: Config; core/pricing.py: PricingCalculator *)

\* Config.SHIPPING_COST, Config.MINIMUM_PROFIT (yen) and Config.MERCARI_FEE_RATE (0.10)
\* in percent
SHIPPING_COST == 500
MINIMUM_PROFIT == 200
MERCARI_FEE_PERCENT == 10

\* a faulty ceiling: an exact quotient is rounded up a further step
CeilAlwaysUp(num, den) == (num \div den) + 1

\* math.ceil(num / den) for num >= 0 and den > 0
Ceil(num, den) == (num + den - 1) \div den

\* Config.calculate_minimum_price, to which PricingCalculator.calculate_minimum_price
\* delegates: raw_price = (p + shipping + profit) / (1 - rate), then ceil(raw_price / 10) * 10.
\* The quotients are taken exactly; for the prices up to 10^8 the floating-point
\* evaluation of the source gives the same integers.
calculate_minimum_price(purchase_price) ==
    Ceil((purchase_price + SHIPPING_COST + MINIMUM_PROFIT) * 100,
         (100 - MERCARI_FEE_PERCENT) * 10) * 10

\* the consistency check of generate_pricing, one price after the other: a price below
\* the one it must not undercut is raised to it
RaisedTo(price, floor) == IF price < floor THEN floor ELSE price

\* a faulty generate_pricing: every price is only raised to the minimum price
generate_pricing_to_minimum_only(pricing, minimum_price) ==
    [lowest_acceptable |-> RaisedTo(pricing.lowest_acceptable, minimum_price),
     expected_price |-> RaisedTo(pricing.expected_price, minimum_price),
     start_price |-> RaisedTo(pricing.start_price, minimum_price)]

\* OpenAIClient.generate_pricing on the three prices the service answered
generate_pricing(pricing, minimum_price) ==
    [lowest_acceptable |-> RaisedTo(pricing.lowest_acceptable, minimum_price),
     expected_price |-> RaisedTo(pricing.expected_price,
                                 RaisedTo(pricing.lowest_acceptable, minimum_price)),
     start_price |-> RaisedTo(pricing.start_price,
                              RaisedTo(pricing.expected_price,
                                       RaisedTo(pricing.lowest_acceptable, minimum_price)))]

\* PriceSuggestion(...) built from the minimum price and the checked prices
PriceSuggestion(minimum_price, pricing_result) ==
    [minimum_price |-> minimum_price, start_price |-> pricing_result.start_price,
     expected_price |-> pricing_result.expected_price,
     lowest_acceptable |-> pricing_result.lowest_acceptable]

\* the result of a function that returns value, and of one that raises ValueError
Returned(value) == [raised |-> FALSE, value |-> value]
ValueError == [raised |-> TRUE, value |-> "ValueError"]

\* comparing a price that is None or missing raises TypeError or KeyError
PricingError == [raised |-> TRUE, value |-> "TypeError"]

\* PricingCalculator.generate_price_suggestion: answered holds the service's three
\* prices, None where the answer has no number
generate_price_suggestion(purchase_price, answered) ==
    IF answered.lowest_acceptable = None \/ answered.expected_price = None
       \/ answered.start_price = None
    THEN PricingError
    ELSE Returned(PriceSuggestion(calculate_minimum_price(purchase_price),
                      generate_pricing([lowest_acceptable |-> Val(answered.lowest_acceptable),
                                        expected_price |-> Val(answered.expected_price),
                                        start_price |-> Val(answered.start_price)],
                                       calculate_minimum_price(purchase_price))))

\* a faulty parse_strategy: of two phrases in one input the later-tested one wins
ParseStripped_last_phrase(text) ==
    IF text \in {<<"A">>, <<"1">>} THEN Returned(Strategies[1])
    ELSE IF text \in {<<"B">>, <<"2">>} THEN Returned(Strategies[2])
    ELSE IF text \in {<<"C">>, <<"3">>} THEN Returned(Strategies[3])
    ELSE IF Contains(Lower(text), StrategyPhrases[3]) THEN Returned(Strategies[3])
    ELSE IF Contains(Lower(text), StrategyPhrases[2]) THEN Returned(Strategies[2])
    ELSE IF Contains(Lower(text), StrategyPhrases[1]) THEN Returned(Strategies[1])
    ELSE ValueError

\* PricingCalculator.parse_strategy on the stripped and upper-cased input
ParseStripped(text) ==
    IF text \in {<<"A">>, <<"1">>} THEN Returned(Strategies[1])
    ELSE IF text \in {<<"B">>, <<"2">>} THEN Returned(Strategies[2])
    ELSE IF text \in {<<"C">>, <<"3">>} THEN Returned(Strategies[3])
    ELSE IF Contains(Lower(text), StrategyPhrases[1]) THEN Returned(Strategies[1])
    ELSE IF Contains(Lower(text), StrategyPhrases[2]) THEN Returned(Strategies[2])
    ELSE IF Contains(Lower(text), StrategyPhrases[3]) THEN Returned(Strategies[3])
    ELSE ValueError

\* PricingCalculator.parse_strategy
parse_strategy(strategy_input) == ParseStripped(Upper(Strip(strategy_input)))

---------------------------------------------------------------------------
(* core/session_manager.py: SessionState, UserSession, SessionManager *)

\* the members the SessionState enumeration declares
SessionState == {"IDLE", "COLLECTING", "WAITING_MEASUREMENTS", "CONFIRMING", "GENERATING"}
\* the member app.py names for the sale flow
WAITING_SALE_INFO == "WAITING_SALE_INFO"

\* UserSession(user_id=user_id), created at time t
NewSession(user_id, t) ==
    [user_id |-> user_id, state |-> "IDLE", updated_at |-> t,
     image_paths |-> << >>, text_input |-> << >>,
     purchase_price |-> None, management_id |-> None, measurements |-> None,
     gender |-> None, size |-> None, era |-> None,
     features |-> None, description_text |-> << >>, detected_category |-> None,
     product |-> None]

\* a faulty is_expired: a session is expired as soon as the timeout is reached
is_expired_at_timeout(s, t) == (t - s.updated_at) >= SESSION_TIMEOUT_MINUTES * 60

\* UserSession.is_expired at time t
is_expired(s, t) == (t - s.updated_at) > SESSION_TIMEOUT_MINUTES * 60

\* UserSession.touch at time t
touch(s, t) == [s EXCEPT !.updated_at = t]

\* a faulty reset: the image list survives
reset_keeping_images(s, t) ==
    touch([s EXCEPT !.state = "IDLE", !.text_input = << >>,
                    !.purchase_price = None, !.management_id = None, !.measurements = None,
                    !.gender = None, !.size = None, !.era = None,
                    !.features = None, !.description_text = << >>,
                    !.detected_category = None, !.product = None], t)

\* a faulty reset: the feature summary and the text survive
reset_keeping_features(s, t) ==
    touch([s EXCEPT !.state = "IDLE", !.image_paths = << >>,
                    !.purchase_price = None, !.management_id = None, !.measurements = None,
                    !.gender = None, !.size = None, !.era = None,
                    !.detected_category = None, !.product = None], t)

\* UserSession.reset at time t
reset(s, t) ==
    touch([s EXCEPT !.state = "IDLE", !.image_paths = << >>, !.text_input = << >>,
                    !.purchase_price = None, !.management_id = None, !.measurements = None,
                    !.gender = None, !.size = None, !.era = None,
                    !.features = None, !.description_text = << >>,
                    !.detected_category = None, !.product = None], t)

\* UserSession.has_required_data
has_required_data(s) ==
    /\ Len(s.image_paths) > 0
    /\ s.purchase_price # None
    /\ s.management_id # None
    /\ s.measurements # None

\* a faulty get_session: an expired session is returned as it is
get_session_ignoring_expiry(store, user_id, t) ==
    IF store[user_id] = None THEN NewSession(user_id, t) ELSE Val(store[user_id])

\* a faulty get_session: an expired session gets the state IDLE but keeps its fields
get_session_resetting_state_only(store, user_id, t) ==
    LET session == IF store[user_id] = None THEN NewSession(user_id, t) ELSE Val(store[user_id])
    IN  IF is_expired(session, t) THEN touch([session EXCEPT !.state = "IDLE"], t) ELSE session

\* the image lists of the sessions of the other users
OtherImageLists(store, user_id) ==
    {Val(store[v]).image_paths : v \in {w \in DOMAIN store \ {user_id} : store[w] # None}}

\* a faulty get_session: a session created for a new user shares its image list with a
\* session that exists already
get_session_sharing_images(store, user_id, t) ==
    LET session == IF store[user_id] # None THEN Val(store[user_id])
                   ELSE IF OtherImageLists(store, user_id) = {} THEN NewSession(user_id, t)
                   ELSE [NewSession(user_id, t) EXCEPT
                           !.image_paths = CHOOSE l \in OtherImageLists(store, user_id) :
                                              \A k \in OtherImageLists(store, user_id) : Len(k) <= Len(l)]
    IN  IF is_expired(session, t) THEN reset(session, t) ELSE session

\* SessionManager.get_session at time t: create when absent, reset in place when expired
get_session(store, user_id, t) ==
    LET session == IF store[user_id] = None THEN NewSession(user_id, t) ELSE Val(store[user_id])
    IN  IF is_expired(session, t) THEN reset(session, t) ELSE session

\* SessionManager.update_session at time t (the session object is already the stored one)
update_session(s, t) == touch(s, t)

---------------------------------------------------------------------------
(* Collaborators: what one message handling gets back from them *)

UNKNOWN == <<"U", "N", "K", "N", "O", "W", "N">>

\* dictionaries the vision service may return from analyze_images
AIResultNames == {"ai1", "ai2"}
AIResult(name) ==
    IF name = "ai1"
    THEN [brand |-> UNKNOWN, category |-> "TOPS", item_type |-> UNKNOWN, gender |-> UNKNOWN,
          size |-> UNKNOWN, color |-> UNKNOWN, design |-> None, material |-> None,
          confidence |-> 50, description_text |-> << >>]
    ELSE [brand |-> <<"N", "I", "K", "E">>, category |-> "PANTS", item_type |-> <<"PA", "NN", "TSU">>,
          gender |-> <<"ME", "NN", "ZU">>, size |-> <<"M">>, color |-> <<"KU", "RO">>,
          design |-> Some(<<"RO", "GO">>), material |-> None,
          confidence |-> 90, description_text |-> <<"d", "e", "s", "c">>]

\* the outcomes of the collaborators during one message handling, here all successful
QuietOutcome ==
    [detect |-> "TOPS", analyze |-> "ai1", generate |-> "ok", pricing |-> "ok", reply |-> TRUE,
     download |-> "ok", upload |-> "url", save |-> "true", ledger |-> "found"]

\* result of a handler or of a function a handler calls
Result(s, replies, calls, raised) ==
    [session |-> s, replies |-> replies, calls |-> calls, raised |-> raised]

Call(name, result) == [name |-> name, result |-> result]

\* the reply of an except-branch: "error ... send reset"
ErrorReply == [kind |-> "error"]

\* what reaches the user of one reply_text / reply_multiple call: nothing when the channel fails
Reply(o, r) == IF o.reply THEN <<r>> ELSE << >>

\* a try/except around a call r: the except-branch replies with the error text
Try(r, o) ==
    IF r.raised
    THEN Result(r.session, r.replies \o Reply(o, ErrorReply), r.calls, ~o.reply)
    ELSE r

---------------------------------------------------------------------------
(* core/text_parser.py: the compact forms app.py calls *)

\* starts of the digit runs of text, in increasing order
DigitRunStarts(text) ==
    LET starts == {i \in 1..Len(text) : IsDigit(text[i]) /\ (i = 1 \/ ~IsDigit(text[i - 1]))}
        RECURSIVE Sorted(_)
        Sorted(S) == IF S = {} THEN << >>
                     ELSE LET m == CHOOSE x \in S : \A y \in S : x <= y
                          IN  <<m>> \o Sorted(S \ {m})
    IN  Sorted(starts)

\* the era slot of the compact form: the third digit run, kept only in an era shape
CompactEra(text) ==
    LET t == Lower(ReplaceFullWidthSpace(TranslateDigits(text)))
        starts == DigitRunStarts(t)
    IN  IF Len(starts) < 3 THEN None
        ELSE LET a == starts[3]
                 b == DigitRunEnd(t, a)
                 run == SubSeq(t, a, b)
             IN  IF Len(run) = 2 /\ MatchAt(t, b + 1, <<"s">>) THEN Some(run \o <<"s">>)
                 ELSE IF Len(run) = 4 /\ MatchAt(t, b + 1, EraSuffix) THEN Some(run \o EraSuffix)
                 ELSE IF Len(run) = 2 /\ MatchAt(t, b + 1, EraSuffix) THEN Some(run \o <<"s">>)
                 ELSE None

\* a faulty parse_price_and_id: a missing slot gives zero
parse_price_and_id_zero_for_missing(text) ==
    LET numbers == parse_simple_numbers(text, 2)
    IN  [purchase_price |-> IF numbers[1] # None THEN numbers[1] ELSE Some(0),
         management_id |-> IF numbers[2] # None THEN Some(StrOf(Val(numbers[2])))
                           ELSE Some(<<"0">>),
         era |-> CompactEra(text)]

\* parse_price_and_id: first digit run -> price (int), second -> id (str)
parse_price_and_id(text) ==
    LET numbers == parse_simple_numbers(text, 2)
    IN  [purchase_price |-> numbers[1],
         management_id |-> IF numbers[2] # None THEN Some(StrOf(Val(numbers[2]))) ELSE None,
         era |-> CompactEra(text)]

\* parse_sale_info: three positional integers (management id, sale price, shipping cost)
parse_sale_info(text) ==
    LET numbers == parse_simple_numbers(text, 3)
    IN  [management_id |-> IF numbers[1] # None THEN Some(StrOf(Val(numbers[1]))) ELSE None,
         sale_price |-> numbers[2],
         shipping_cost |-> numbers[3]]

---------------------------------------------------------------------------
(* app.py: command words *)

\* the command words of process_text_message
ResetCommands == { <<"RI", "SE", "XTSU", "TO">>, <<"r", "e", "s", "e", "t">>,
                   <<"KI", "XYA", "NN", "SE", "RU">>, <<"c", "a", "n", "c", "e", "l">> }
SaleCommands == { <<"BAI", "KYAKU">>, <<"BAI", "re", "ta">>, <<"HAN", "BAI", "KAN", "RYOU">> }

IsResetCommand(text) == Lower(Strip(text)) \in ResetCommands
IsSaleCommand(text) == Strip(text) \in SaleCommands

---------------------------------------------------------------------------
(* The messages the model sends *)

\* the katakana reset word
TxtReset == <<"RI", "SE", "XTSU", "TO">>
\* " Reset " with a leading full-width space and a trailing space
TxtResetPadded == <<"FWSP", "R", "e", "s", "e", "t", " ">>
\* the sale command
TxtSale == <<"BAI", "KYAKU">>
\* "880 222"
TxtPriceId == <<"8", "8", "0", " ", "2", "2", "2">>
\* "0 222"
TxtZeroPrice == <<"0", " ", "2", "2", "2">>
\* "60 50 42 20"
TxtFour == <<"6", "0", " ", "5", "0", " ", "4", "2", " ", "2", "0">>
\* "0 50 42 20"
TxtFourZero == <<"0", " ", "5", "0", " ", "4", "2", " ", "2", "0">>
\* "60 50 42 20 80 75 20 30"
TxtEight == <<"6", "0", " ", "5", "0", " ", "4", "2", " ", "2", "0", " ",
              "8", "0", " ", "7", "5", " ", "2", "0", " ", "3", "0">>
\* "B"
TxtStrategy == <<"B">>
\* "1 adidas"
TxtEdit == <<"1", " ", "a", "d", "i", "d", "a", "s">>
\* "1 adidas" and "B" on two lines
TxtEditStrategy == <<"1", " ", "a", "d", "i", "d", "a", "s", "\n", "B">>
\* "hello"
TxtJunk == <<"h", "e", "l", "l", "o">>
\* the four upper-body keywords with 60, 50, 42 and 20
TxtVerbose == <<"CHAKU", "TAKE", "6", "0", " ", "MI", "HABA", "5", "0", " ",
                "KATA", "HABA", "4", "2", " ", "SODE", "TAKE", "2", "0">>
\* the men's keyword, "L" and "90s"
TxtGender == <<"ME", "NN", "ZU", " ", "L", " ", "9", "0", "s">>
\* "1 adidas", "3" with the hoodie word and "B" on three lines
TxtEditThree == <<"1", " ", "a", "d", "i", "d", "a", "s", "\n",
                  "3", " ", "PA", "CHOON", "KA", "CHOON", "\n", "B">>
\* "7" with a word for "no design"
TxtEditDesign == <<"7", " ", "na", "shi">>
\* "2" with the lower-body category label
TxtEditCategory == <<"2", " ", "PA", "NN", "TSU">>
\* "2 hello": a category edit whose value is no category label
TxtEditBadCategory == <<"2", " ", "h", "e", "l", "l", "o">>
\* "215 3000 700": management id, sale price and shipping cost
TxtSaleInfo == <<"2", "1", "5", " ", "3", "0", "0", "0", " ", "7", "0", "0">>
\* the sale command in its "sold" spelling, padded
TxtSold == <<" ", "BAI", "re", "ta", "FWSP">>
\* "9 adidas": no field has the number 9
TxtEditNine == <<"9", " ", "a", "d", "i", "d", "a", "s">>

\* "880 222", the four-digit era 2000 and "90s"
TxtTwoEras == <<"8", "8", "0", " ", "2", "2", "2", " ", "2", "0", "0", "0", "NEN", "DAI", " ",
                "9", "0", "s">>
\* the length and width keywords with 66 and 55
TxtPartial == <<"CHAKU", "TAKE", "6", "6", " ", "MI", "HABA", "5", "5">>
\* the four lower-body keywords with 64, 64, 13 and 28
TxtVerbosePants == <<"UU", "EE", "SU", "TO", "6", "4", " ", "MATA", "SHITA", "6", "4", " ",
                     "SUSO", "HABA", "1", "3", " ", "MATA", "UE", "2", "8">>
\* the management-number keyword with 215
TxtKeywordId == <<"KUDA", "KOTOWARI", "BAN", "GOU", "2", "1", "5">>
\* the purchase keyword with 814 and the yen sign
TxtKeywordPrice == <<"SHI", "NYUU", "re", "8", "1", "4", "YEN">>

Texts == {TxtTwoEras, TxtPartial, TxtVerbosePants, TxtKeywordId, TxtKeywordPrice,
          TxtReset, TxtResetPadded, TxtSale, TxtPriceId, TxtZeroPrice, TxtFour, TxtFourZero, TxtEight,
          TxtStrategy, TxtEdit, TxtEditStrategy, TxtJunk, TxtVerbose, TxtGender,
          TxtEditThree, TxtEditDesign, TxtEditCategory, TxtEditBadCategory, TxtEditNine,
          TxtSaleInfo, TxtSold}

\* the messages of the intake flow: commands, price and id, measurements, a strategy
IntakeTexts == {TxtReset, TxtResetPadded, TxtSale, TxtPriceId, TxtZeroPrice, TxtFour, TxtFourZero, TxtEight,
                TxtStrategy, TxtJunk, TxtVerbose}

\* the messages of the confirmation flow: what reaches CONFIRMING, then edits and strategies
EditFlowTexts == {TxtPriceId, TxtFour, TxtStrategy, TxtEdit, TxtEditThree, TxtEditDesign,
                  TxtEditCategory, TxtEditBadCategory, TxtEditNine}

\* the messages of the sale flow: what reaches every state, the sale command, sale messages
SaleFlowTexts == {TxtSale, TxtSold, TxtSaleInfo, TxtPriceId, TxtFour, TxtStrategy}

\* every value session.text_input can hold: "" or a message
KnownTexts == Texts \cup {<< >>}

(* Each parse of each message, computed once *)
ParseAllTable == [text \in KnownTexts |-> parse_all(text)]
ParsePriceAndIdTable == [text \in KnownTexts |-> parse_price_and_id(text)]
ParseSaleInfoTable == [text \in KnownTexts |-> parse_sale_info(text)]
ParseInputTable == [text \in KnownTexts |-> parse_input(text)]
ParseMeasurementsSimpleTable ==
    [text \in KnownTexts |-> [category \in Categories |-> parse_measurements_simple(text, category)]]
CommandTable ==
    [text \in KnownTexts |-> [reset |-> IsResetCommand(text), sale |-> IsSaleCommand(text)]]

---------------------------------------------------------------------------
(* core/image_analyzer.py and integrations/openai_client.py *)

\* analyze_images accepts 1 to 5 images
MaxAnalysisImages == 5

\* ProductFeatures.condition default
DefaultCondition == <<"NO_NOTICEABLE_DAMAGE">>

\* ImageAnalyzer.analyze, the ProductFeatures it builds from the parsed text and the AI's
\* dictionary: text-derived gender, size and era take precedence over the AI's
BuildFeatures(parsed, ai) ==
    [brand |-> ai.brand, category |-> ai.category, item_type |-> ai.item_type,
     gender |-> IF TruthyStr(parsed.gender) THEN Val(parsed.gender) ELSE ai.gender,
     size |-> IF TruthyStr(parsed.size) THEN Val(parsed.size) ELSE ai.size,
     color |-> ai.color, design |-> ai.design, material |-> ai.material,
     era |-> parsed.era, condition |-> DefaultCondition, confidence |-> ai.confidence,
     description_text |-> ai.description_text]

\* ImageAnalyzer.analyze
analyze(image_paths, user_text, ai) == BuildFeatures(ParseAllTable[user_text], ai)

---------------------------------------------------------------------------
(* app.py: the functions the message handlers call *)

\* a faulty start_analysis: the state is advanced but the features are not stored
start_analysis_dropping_features(s, o, t) ==
    IF Len(s.image_paths) = 0 \/ Len(s.image_paths) > MaxAnalysisImages \/ o.analyze = "raise"
    THEN Result(s, << >>, <<Call("analyze", "raise")>>, TRUE)
    ELSE Result(update_session([s EXCEPT !.state = "CONFIRMING"], t),
                Reply(o, [kind |-> "confirmation", image_count |-> Len(s.image_paths)]),
                <<Call("analyze", o.analyze)>>, ~o.reply)

\* start_analysis: the session's category, gender, size and era replace the analysed ones
OverrideFeatures(features, s) ==
    [features EXCEPT
       !.category = IF s.detected_category # None THEN Val(s.detected_category) ELSE @,
       !.gender = IF TruthyStr(s.gender) THEN Val(s.gender) ELSE @,
       !.size = IF TruthyStr(s.size) THEN Val(s.size) ELSE @,
       !.era = IF TruthyStr(s.era) THEN s.era ELSE @]

\* start_analysis: the features are stored and the session goes to CONFIRMING
StoreFeatures(s, features, t) ==
    update_session([s EXCEPT !.features = Some(features),
                             !.description_text = features.description_text,
                             !.state = "CONFIRMING"], t)

\* start_analysis
start_analysis(s, o, t) ==
    IF Len(s.image_paths) = 0 \/ Len(s.image_paths) > MaxAnalysisImages \/ o.analyze = "raise"
    THEN Result(s, << >>, <<Call("analyze", "raise")>>, TRUE)
    ELSE Result(StoreFeatures(s,
                    OverrideFeatures(analyze(s.image_paths, s.text_input, AIResult(o.analyze)), s),
                    t),
                Reply(o, [kind |-> "confirmation", image_count |-> Len(s.image_paths)]),
                <<Call("analyze", o.analyze)>>, ~o.reply)

\* start_category_detection
start_category_detection(s, o, t) ==
    IF Len(s.image_paths) > 0 /\ o.detect = "raise"
    THEN Result(s, << >>, <<Call("detect_category", "raise")>>, TRUE)
    ELSE LET category == IF Len(s.image_paths) = 0 THEN "TOPS" ELSE o.detect
             s1 == update_session([s EXCEPT !.detected_category = Some(category),
                                            !.state = "WAITING_MEASUREMENTS"], t)
         IN  Result(s1,
                    Reply(o, [kind |-> "measurement_prompt", category |-> category,
                              image_count |-> Len(s.image_paths)]),
                    <<Call("detect_category", category)>>, ~o.reply)

\* Product(...) built by generate_product_info, with the strategy generation prices it for
NewProduct(s, strategy) ==
    [management_id |-> s.management_id, purchase_price |-> s.purchase_price,
     measurements |-> s.measurements, features |-> s.features,
     image_paths |-> s.image_paths, raw_text |-> s.text_input, strategy |-> strategy]

\* generator.generate_all(product): the call, with the feature summary of the product
GenerateAll(result, product) ==
    [name |-> "generate_all", result |-> result, features |-> product.features]

\* pricing_calc.generate_price_suggestion(features, purchase_price, strategy): the call
GeneratePriceSuggestion(result, product) ==
    [name |-> "generate_price_suggestion", result |-> result, strategy |-> product.strategy]

\* a faulty generate_product_info: a failed upload or ledger save leaves the session as
\* it is after the reply
generate_product_info_blocking(s, strategy, o, t) ==
    LET s1 == update_session([s EXCEPT !.state = "GENERATING"], t)
        product == NewProduct(s1, strategy)
        s2 == update_session([s1 EXCEPT !.product = Some(product)], t)
        generated == <<GenerateAll("ok", product), GeneratePriceSuggestion("ok", product)>>
        upload == IF Len(s2.image_paths) > 0 THEN <<Call("upload_image", o.upload)>> ELSE << >>
    IN  IF s1.features = None \/ s1.measurements = None \/ o.generate = "raise"
        THEN Result(s1, << >>, <<GenerateAll("raise", product)>>, TRUE)
        ELSE IF s1.purchase_price = None \/ o.pricing = "raise"
        THEN Result(s1, << >>, <<GenerateAll("ok", product),
                                 GeneratePriceSuggestion("raise", product)>>, TRUE)
        ELSE IF ~o.reply
        THEN Result(s2, << >>, generated, TRUE)
        ELSE IF o.upload \in {"none", "raise"} \/ o.save \in {"false", "raise"}
        THEN Result(s2, <<[kind |-> "result", strategy |-> strategy]>>,
                    generated \o upload \o <<Call("save_product", o.save)>>, FALSE)
        ELSE Result(update_session(reset(s2, t), t),
                    <<[kind |-> "result", strategy |-> strategy]>>,
                    generated \o upload \o <<Call("save_product", o.save),
                                             Call("clear_user_images", "ok")>>,
                    FALSE)

\* generate_product_info
generate_product_info(s, strategy, o, t) ==
    LET s1 == update_session([s EXCEPT !.state = "GENERATING"], t)
        product == NewProduct(s1, strategy)
        s2 == update_session([s1 EXCEPT !.product = Some(product)], t)
        generated == <<GenerateAll("ok", product), GeneratePriceSuggestion("ok", product)>>
        upload == IF Len(s2.image_paths) > 0 THEN <<Call("upload_image", o.upload)>> ELSE << >>
    IN  IF s1.features = None \/ s1.measurements = None \/ o.generate = "raise"
        THEN Result(s1, << >>, <<GenerateAll("raise", product)>>, TRUE)
        ELSE IF s1.purchase_price = None \/ o.pricing = "raise"
        THEN Result(s1, << >>, <<GenerateAll("ok", product),
                                 GeneratePriceSuggestion("raise", product)>>, TRUE)
        ELSE IF ~o.reply
        THEN Result(s2, << >>, generated, TRUE)
        ELSE Result(update_session(reset(s2, t), t),
                    <<[kind |-> "result", strategy |-> strategy]>>,
                    generated \o upload \o <<Call("save_product", o.save),
                                             Call("clear_user_images", "ok")>>,
                    FALSE)

\* a faulty ApplyEdits: the edited summary is not stored
ApplyEditsWithoutStore(s, parsed, t) == s

\* process_confirmation_response: the modifications are applied and the session updated
ApplyEdits(s, parsed, t) ==
    IF parsed.modifications # None /\ s.features # None
    THEN update_session(
             [s EXCEPT !.features =
                  Some(apply_modifications(Val(s.features), Val(parsed.modifications)))], t)
    ELSE s

\* process_confirmation_response: the try/except around generate_product_info, whose
\* except-branch replies with the generation error text
TryGeneration(g, o) ==
    IF g.raised
    THEN Result(g.session, g.replies \o Reply(o, [kind |-> "generation_error"]), g.calls, ~o.reply)
    ELSE g

\* process_confirmation_response, after the modifications: s1 is the session they left
RespondToConfirmation(s1, parsed, o, t) ==
    IF parsed.strategy # None
    THEN TryGeneration(generate_product_info(s1, Val(parsed.strategy), o, t), o)
    ELSE IF parsed.modifications # None
    THEN IF s1.features = None
         THEN Result(s1, << >>, << >>, TRUE)
         ELSE Result(s1,
                     Reply(o, [kind |-> "modified", image_count |-> Len(s1.image_paths)]),
                     << >>, ~o.reply)
    ELSE Result(s1, Reply(o, [kind |-> "unrecognized"]), << >>, ~o.reply)

\* a faulty order: with a strategy in the message, generation runs on the unedited summary
ConfirmParsedGeneratingUnedited(s, parsed, o, t) ==
    IF parsed.strategy # None
    THEN RespondToConfirmation(s, parsed, o, t)
    ELSE RespondToConfirmation(ApplyEdits(s, parsed, t), parsed, o, t)

\* process_confirmation_response on the parsed input
ConfirmParsed(s, parsed, o, t) == RespondToConfirmation(ApplyEdits(s, parsed, t), parsed, o, t)

\* process_confirmation_response
process_confirmation_response(s, text, o, t) == ConfirmParsed(s, ParseInputTable[text], o, t)

\* the category process_measurements_input parses for
MeasurementCategory(s) == IF s.detected_category # None THEN Val(s.detected_category) ELSE "TOPS"

\* the completeness check process_measurements_input makes for the category
RequiredComplete(measurements, category) ==
    IF category = "PANTS" THEN has_pants_measurements(measurements)
    ELSE IF category = "SETUP"
    THEN has_tops_measurements(measurements) /\ has_pants_measurements(measurements)
    ELSE has_tops_measurements(measurements)

\* process_measurements_input on the measurements parsed for the category
AcceptMeasurements(s, measurements, category, o, t) ==
    IF ~RequiredComplete(measurements, category)
    THEN Result(s, Reply(o, [kind |-> "measurement_reprompt", category |-> category]),
                << >>, ~o.reply)
    ELSE Try(start_analysis(update_session([s EXCEPT !.measurements = Some(measurements)], t),
                            o, t), o)

\* process_measurements_input
process_measurements_input(s, text, o, t) ==
    AcceptMeasurements(s, ParseMeasurementsSimpleTable[text][MeasurementCategory(s)],
                       MeasurementCategory(s), o, t)

\* all three values of the sale message are present
SaleInfoComplete(info) ==
    info.management_id # None /\ info.sale_price # None /\ info.shipping_cost # None

\* a faulty process_sale_info_input: a ledger failure leaves the session waiting
RecordSaleWaitingOnFailure(s, info, o, t) ==
    IF ~SaleInfoComplete(info)
    THEN Result(s, Reply(o, [kind |-> "sale_format"]), << >>, ~o.reply)
    ELSE IF o.ledger = "raise"
    THEN Result(s, Reply(o, [kind |-> "sale_error", management_id |-> Val(info.management_id)]),
                <<Call("update_sale_info", o.ledger)>>, ~o.reply)
    ELSE Result(update_session(reset(s, t), t),
                Reply(o, [kind |-> IF o.ledger = "found" THEN "sale_recorded" ELSE "sale_not_found",
                          management_id |-> Val(info.management_id)]),
                <<Call("update_sale_info", o.ledger)>>, ~o.reply)

\* process_sale_info_input on the parsed sale message
RecordSale(s, info, o, t) ==
    IF ~SaleInfoComplete(info)
    THEN Result(s, Reply(o, [kind |-> "sale_format"]), << >>, ~o.reply)
    ELSE IF ~o.reply
    THEN Result(s, << >>, <<Call("update_sale_info", o.ledger)>>, TRUE)
    ELSE Result(update_session(reset(s, t), t),
                <<[kind |-> CASE o.ledger = "found" -> "sale_recorded"
                              [] o.ledger = "notfound" -> "sale_not_found"
                              [] o.ledger = "raise" -> "sale_error",
                   management_id |-> Val(info.management_id)]>>,
                <<Call("update_sale_info", o.ledger)>>, FALSE)

\* process_sale_info_input
process_sale_info_input(s, text, o, t) == RecordSale(s, ParseSaleInfoTable[text], o, t)

\* a faulty readiness test: price and id are only required to be present
HasPriceAndIdPresent(s) == s.purchase_price # None /\ s.management_id # None

\* price and id are both truthy
HasPriceAndId(s) == TruthyInt(s.purchase_price) /\ TruthyStr(s.management_id)

\* a faulty readiness test: stored measurements are never taken as complete
MeasurementsNeverReady(s) == FALSE

\* the stored measurements are complete for the upper-body or the lower-body group
MeasurementsReady(s) ==
    /\ s.measurements # None
    /\ has_tops_measurements(Val(s.measurements)) \/ has_pants_measurements(Val(s.measurements))

\* the readiness branch shared by the text and the image handler: analysis when the
\* measurements are complete for a category, category detection otherwise
AnalyseOrDetect(s, o, t) ==
    IF MeasurementsReady(s)
    THEN Try(start_analysis(s, o, t), o)
    ELSE Try(start_category_detection(s, o, t), o)

\* the list of inputs the text handler reports as missing
MissingItems(s) ==
    (IF Len(s.image_paths) = 0 THEN <<"IMAGE">> ELSE << >>)
    \o (IF s.purchase_price = None THEN <<"PRICE">> ELSE << >>)
    \o (IF s.management_id = None THEN <<"ID">> ELSE << >>)

\* process_text_message, IDLE or COLLECTING branch: the era after the compact form
CompactOrStoredEra(s, compact) == IF compact.era # None THEN compact.era ELSE s.era

\* a faulty merge: the fields the keyword parse found are written into the stored
\* measurement set, whether the parsed set is complete or not
MergeFieldsPartialMeasurements(s, text, compact, parsed, t) ==
    update_session(
      [s EXCEPT
         !.purchase_price = IF compact.purchase_price # None THEN compact.purchase_price ELSE @,
         !.management_id = IF compact.management_id # None THEN compact.management_id ELSE @,
         !.gender = IF TruthyStr(parsed.gender) THEN parsed.gender ELSE @,
         !.size = IF TruthyStr(parsed.size) THEN parsed.size ELSE @,
         !.era = IF TruthyStr(parsed.era) /\ CompactOrStoredEra(s, compact) = None
                 THEN parsed.era ELSE CompactOrStoredEra(s, compact),
         !.measurements =
             IF parsed.measurements = EmptyMeasurements THEN @
             ELSE IF @ = None THEN Some(parsed.measurements)
             ELSE Some([f \in DOMAIN EmptyMeasurements |->
                          IF parsed.measurements[f] # None THEN parsed.measurements[f]
                          ELSE Val(@)[f]]),
         !.text_input = text,
         !.state = "COLLECTING"], t)

\* a faulty merge: the era of the keyword parse replaces the one of the compact parse
MergeFieldsVerboseEra(s, text, compact, parsed, t) ==
    update_session(
      [s EXCEPT
         !.purchase_price = IF compact.purchase_price # None THEN compact.purchase_price ELSE @,
         !.management_id = IF compact.management_id # None THEN compact.management_id ELSE @,
         !.gender = IF TruthyStr(parsed.gender) THEN parsed.gender ELSE @,
         !.size = IF TruthyStr(parsed.size) THEN parsed.size ELSE @,
         !.era = IF TruthyStr(parsed.era) THEN parsed.era ELSE CompactOrStoredEra(s, compact),
         !.measurements =
             IF has_tops_measurements(parsed.measurements)
                \/ has_pants_measurements(parsed.measurements)
             THEN Some(parsed.measurements) ELSE @,
         !.text_input = text,
         !.state = "COLLECTING"], t)

\* process_text_message, IDLE or COLLECTING branch, up to update_session: the fields the
\* compact parse and the keyword parse of the message contribute
MergeFields(s, text, compact, parsed, t) ==
    update_session(
      [s EXCEPT
         !.purchase_price = IF compact.purchase_price # None THEN compact.purchase_price ELSE @,
         !.management_id = IF compact.management_id # None THEN compact.management_id ELSE @,
         !.gender = IF TruthyStr(parsed.gender) THEN parsed.gender ELSE @,
         !.size = IF TruthyStr(parsed.size) THEN parsed.size ELSE @,
         !.era = IF TruthyStr(parsed.era) /\ CompactOrStoredEra(s, compact) = None
                 THEN parsed.era ELSE CompactOrStoredEra(s, compact),
         !.measurements =
             IF has_tops_measurements(parsed.measurements)
                \/ has_pants_measurements(parsed.measurements)
             THEN Some(parsed.measurements) ELSE @,
         !.text_input = text,
         !.state = "COLLECTING"], t)

\* process_text_message, IDLE or COLLECTING branch, up to update_session
CollectFields(s, text, t) ==
    MergeFields(s, text, ParsePriceAndIdTable[text], ParseAllTable[text], t)

\* process_text_message, IDLE or COLLECTING branch, after update_session: s2 is the
\* session the message left
RespondCollected(s2, o, t) ==
    IF Len(s2.image_paths) > 0 /\ HasPriceAndId(s2)
    THEN AnalyseOrDetect(s2, o, t)
    ELSE IF MissingItems(s2) # << >>
    THEN Result(s2, Reply(o, [kind |-> "missing", items |-> MissingItems(s2)]), << >>, ~o.reply)
    ELSE Result(s2, Reply(o, [kind |-> "accepted"]), << >>, ~o.reply)

\* process_text_message, IDLE or COLLECTING branch (every state no earlier branch takes)
process_collecting_text(s, text, o, t) == RespondCollected(CollectFields(s, text, t), o, t)

\* process_text_message on the session get_session returned; command tells which command
\* words the message is
Dispatch(s, text, command, o, t) ==
    IF command.reset
    THEN Result(update_session(reset(s, t), t), Reply(o, [kind |-> "reset_done"]),
                <<Call("clear_user_images", "ok")>>, ~o.reply)
    ELSE IF command.sale
    THEN Result(update_session([reset(s, t) EXCEPT !.state = WAITING_SALE_INFO], t),
                Reply(o, [kind |-> "sale_prompt"]),
                <<Call("clear_user_images", "ok")>>, ~o.reply)
    ELSE IF s.state = WAITING_SALE_INFO THEN process_sale_info_input(s, text, o, t)
    ELSE IF s.state = "CONFIRMING" THEN process_confirmation_response(s, text, o, t)
    ELSE IF s.state = "WAITING_MEASUREMENTS" THEN process_measurements_input(s, text, o, t)
    ELSE process_collecting_text(s, text, o, t)

\* process_text_message on the session get_session returned
process_text(s, text, o, t) == Dispatch(s, text, CommandTable[text], o, t)

\* a faulty state check: only CONFIRMING turns an image away
WouldAppendUnlessConfirming(s) == s.state # "CONFIRMING"

\* process_image_message gets past its state check and downloads
WouldAppend(s) == s.state \notin {"CONFIRMING", "WAITING_MEASUREMENTS"}

\* a faulty append: the new image is put in front of the list
AppendImageInFront(s, message_id, t) ==
    update_session([s EXCEPT !.image_paths = <<message_id>> \o @, !.state = "COLLECTING"], t)

\* the image is appended: process_image_message from the download to update_session
AppendImage(s, message_id, t) ==
    update_session([s EXCEPT !.image_paths = Append(@, message_id), !.state = "COLLECTING"], t)

\* the result r of a step, with the calls made before the step put in front of its own
After(calls, r) == Result(r.session, r.replies, calls \o r.calls, r.raised)

\* process_image_message after update_session: s1 is the session with the image appended
RespondAppended(s1, o, t) ==
    IF HasPriceAndId(s1)
    THEN After(<<Call("download_image", "ok")>>, AnalyseOrDetect(s1, o, t))
    ELSE Result(s1, << >>, <<Call("download_image", "ok")>>, FALSE)

\* process_image_message on the session get_session returned
process_image(s, message_id, o, t) ==
    IF ~WouldAppend(s)
    THEN Result(s, Reply(o, [kind |-> "image_rejected"]), << >>, ~o.reply)
    ELSE IF o.download # "ok"
    THEN Result(s, Reply(o, [kind |-> "download_failed"]),
                <<Call("download_image", o.download)>>, ~o.reply)
    ELSE RespondAppended(AppendImage(s, message_id, t), o, t)

---------------------------------------------------------------------------
(* The collaborators one message handling calls, and the outcomes it can observe *)

\* whether the channel delivers a reply: in this specification it always does
ReplyOutcomes == {TRUE}

ChannelOutcomes == {[QuietOutcome EXCEPT !.reply = b] : b \in ReplyOutcomes}
LedgerOutcomes ==
    {[q EXCEPT !.ledger = l] : q \in ChannelOutcomes, l \in {"found", "notfound", "raise"}}
GenerationOutcomes ==
    {[q EXCEPT !.generate = "raise"] : q \in ChannelOutcomes}
    \cup {[q EXCEPT !.pricing = "raise"] : q \in ChannelOutcomes}
    \cup {[q EXCEPT !.upload = u, !.save = v] :
              q \in ChannelOutcomes, u \in {"url", "none", "raise"}, v \in {"true", "false", "raise"}}
AnalysisOutcomes ==
    {[q EXCEPT !.analyze = a] : q \in ChannelOutcomes, a \in AIResultNames \cup {"raise"}}
DetectionOutcomes ==
    {[q EXCEPT !.detect = d] : q \in ChannelOutcomes, d \in Categories \cup {"raise"}}

\* outcomes of the readiness branch on the session s
ReadinessOutcomes(s) == IF MeasurementsReady(s) THEN AnalysisOutcomes ELSE DetectionOutcomes

\* outcomes of the IDLE or COLLECTING branch on the session s2 the message left
CollectedOutcomes(s2) ==
    IF Len(s2.image_paths) > 0 /\ HasPriceAndId(s2) THEN ReadinessOutcomes(s2) ELSE ChannelOutcomes

\* outcomes process_text_message can observe for text on the session s at time t;
\* command tells which command words the message is
DispatchOutcomes(s, text, command, t) ==
    IF command.reset \/ command.sale THEN ChannelOutcomes
    ELSE IF s.state = WAITING_SALE_INFO
    THEN IF SaleInfoComplete(ParseSaleInfoTable[text]) THEN LedgerOutcomes ELSE ChannelOutcomes
    ELSE IF s.state = "CONFIRMING"
    THEN IF ParseInputTable[text].strategy # None THEN GenerationOutcomes ELSE ChannelOutcomes
    ELSE IF s.state = "WAITING_MEASUREMENTS"
    THEN IF RequiredComplete(ParseMeasurementsSimpleTable[text][MeasurementCategory(s)],
                             MeasurementCategory(s))
         THEN AnalysisOutcomes ELSE ChannelOutcomes
    ELSE CollectedOutcomes(CollectFields(s, text, t))

\* outcomes process_text_message can observe for text on the session s at time t
TextOutcomes(s, text, t) == DispatchOutcomes(s, text, CommandTable[text], t)

\* outcomes process_image_message can observe on the session s
ImageOutcomes(s, message_id, t) ==
    IF ~WouldAppend(s) THEN ChannelOutcomes
    ELSE {[q EXCEPT !.download = "raise"] : q \in ChannelOutcomes}
         \cup (IF HasPriceAndId(s) THEN ReadinessOutcomes(s) ELSE {QuietOutcome})

---------------------------------------------------------------------------
(* State machine *)

\* the state of a stored session, "NONE" when the user has none
StateOf(stored) == IF stored = None THEN "NONE" ELSE Val(stored).state

\* the record of the message handled last: its user, its text ("" for an image), the state the
\* session was stored in when the message arrived, the replies delivered, the
\* collaborator calls made and whether an exception left the handler
Handled(user_id, op, text, pre, r) ==
    [user_id |-> user_id, op |-> op, text |-> text, pre_state |-> StateOf(pre),
     replies |-> r.replies, calls |-> r.calls, raised |-> r.raised]

\* no pure function is being applied
NoCalc == [fn |-> "none", input |-> << >>, output |-> << >>]

Init ==
    /\ sessions = [u \in Users |-> None]
    /\ now = 0
    /\ last = [user_id |-> "NONE", op |-> "none", text |-> << >>, pre_state |-> "NONE", replies |-> << >>, calls |-> << >>, raised |-> FALSE]
    /\ pending = [u \in Users |-> None]
    /\ calc = NoCalc

\* the handler returns: the session it worked on stays in the store, and the message is
\* recorded as the one handled last
Return(user_id, op, text, r) ==
    /\ sessions' = [sessions EXCEPT ![user_id] = Some(r.session)]
    /\ last' = Handled(user_id, op, text, sessions[user_id], r)
    /\ UNCHANGED <<now, pending, calc>>

\* handle_text_message -> process_text_message(user_id, text, reply_token)
process_text_message(user_id, text) ==
    \E o \in TextOutcomes(get_session(sessions, user_id, now), text, now) :
        Return(user_id, "text", text,
               process_text(get_session(sessions, user_id, now), text, o, now))

\* handle_image_message -> process_image_message(user_id, message_id, reply_token)
process_image_message(user_id, message_id) ==
    LET entry == get_session(sessions, user_id, now)
    IN  /\ WouldAppend(entry) =>
               /\ Len(entry.image_paths) < MaxImages
               /\ \A i \in 1..Len(entry.image_paths) : entry.image_paths[i] # message_id
        /\ \E o \in ImageOutcomes(entry, message_id, now) :
               Return(user_id, "image", << >>, process_image(entry, message_id, o, now))

\* time passes
Tick ==
    /\ now < MaxTicks * TickSeconds
    /\ now' = now + TickSeconds
    /\ UNCHANGED <<sessions, last, pending, calc>>

Next ==
    \/ \E u \in Users, text \in IntakeTexts : process_text_message(u, text)
    \/ \E u \in Users, m \in MessageIds : process_image_message(u, m)
    \/ Tick

Spec == Init /\ [][Next]_vars

\* the confirmation flow: intake up to CONFIRMING, then edits and strategies, at one time
NextEdit ==
    \/ \E u \in Users, text \in EditFlowTexts : process_text_message(u, text)
    \/ \E u \in Users, m \in MessageIds : process_image_message(u, m)

SpecEdit == Init /\ [][NextEdit]_vars

\* the sale flow: intake and generation, the sale command and the sale message, at one time
NextSale ==
    \/ \E u \in Users, text \in SaleFlowTexts : process_text_message(u, text)
    \/ \E u \in Users, m \in MessageIds : process_image_message(u, m)

SpecSale == Init /\ [][NextSale]_vars

---------------------------------------------------------------------------
(* Time around the session timeout: waits of one second and of the whole timeout *)

\* the number of whole timeouts and, after each, of single seconds that may pass
MaxTimeouts == 2
MaxSeconds == 2

\* time.time() advances by the session timeout
WaitTimeout ==
    /\ now < MaxTimeouts * SESSION_TIMEOUT_MINUTES * 60
    /\ now' = now + SESSION_TIMEOUT_MINUTES * 60
    /\ UNCHANGED <<sessions, last, pending, calc>>

\* time.time() advances by one second
WaitSecond ==
    /\ now % (SESSION_TIMEOUT_MINUTES * 60) < MaxSeconds
    /\ now' = now + 1
    /\ UNCHANGED <<sessions, last, pending, calc>>

\* the messages sent around the timeout
ClockTexts == {TxtPriceId, TxtJunk}

NextClock ==
    \/ \E u \in Users, text \in ClockTexts : process_text_message(u, text)
    \/ \E u \in Users, m \in MessageIds : process_image_message(u, m)
    \/ WaitTimeout
    \/ WaitSecond

SpecClock == Init /\ [][NextClock]_vars

---------------------------------------------------------------------------
(* Collecting: compact and keyworded messages *)

\* the messages of the collecting flow: compact and keyworded price, id, era, measurements
CollectTexts == {TxtReset, TxtPriceId, TxtGender, TxtTwoEras, TxtVerbose, TxtPartial,
                 TxtVerbosePants, TxtKeywordId, TxtKeywordPrice}

NextCollect ==
    \/ \E u \in Users, text \in CollectTexts : process_text_message(u, text)
    \/ \E u \in Users, m \in MessageIds : process_image_message(u, m)

SpecCollect == Init /\ [][NextCollect]_vars

---------------------------------------------------------------------------
(* Two users *)

TwoUsers == {"U1", "U2"}

InitUsers ==
    /\ sessions = [u \in TwoUsers |-> None]
    /\ now = 0
    /\ last = [user_id |-> "NONE", op |-> "none", text |-> << >>, pre_state |-> "NONE", replies |-> << >>, calls |-> << >>, raised |-> FALSE]
    /\ pending = [u \in TwoUsers |-> None]
    /\ calc = NoCalc

\* the messages the two users send
UserTexts == {TxtReset, TxtSale, TxtPriceId}

NextUsers ==
    \/ \E u \in TwoUsers, text \in UserTexts : process_text_message(u, text)
    \/ \E u \in TwoUsers, m \in MessageIds : process_image_message(u, m)

SpecUsers == InitUsers /\ [][NextUsers]_vars

---------------------------------------------------------------------------
(* Two handlers of one user: the web server runs each webhook request in a thread of its
   own, the session is one object shared through SessionManager._sessions, and a handler
   that waits for the vision service lets the other handlers of the process run *)

\* the category client.detect_category gives for the images it was called with
DetectedCategory(call, o) == IF Len(call.image_paths) = 0 THEN "TOPS" ELSE o.detect

\* start_category_detection from the return of client.detect_category on: the call was
\* made with the image list of then (call), the rest works on the session object as it
\* is at the return (s)
ResumeDetection(s, call, o, t) ==
    IF Len(call.image_paths) > 0 /\ o.detect = "raise"
    THEN Result(s, << >>, <<Call("detect_category", "raise")>>, TRUE)
    ELSE Result(update_session([s EXCEPT !.detected_category = Some(DetectedCategory(call, o)),
                                         !.state = "WAITING_MEASUREMENTS"], t),
                Reply(o, [kind |-> "measurement_prompt", category |-> DetectedCategory(call, o),
                          image_count |-> Len(s.image_paths)]),
                <<Call("detect_category", DetectedCategory(call, o))>>, ~o.reply)

\* start_analysis from the return of analyzer.analyze on: the call was made with the image
\* list and the text of then (call), the rest works on the session object as it is at
\* the return (s)
ResumeAnalysis(s, call, o, t) ==
    IF Len(call.image_paths) = 0 \/ Len(call.image_paths) > MaxAnalysisImages
       \/ o.analyze = "raise"
    THEN Result(s, << >>, <<Call("analyze", "raise")>>, TRUE)
    ELSE Result(StoreFeatures(s,
                    OverrideFeatures(analyze(call.image_paths, call.text_input,
                                             AIResult(o.analyze)), s),
                    t),
                Reply(o, [kind |-> "confirmation", image_count |-> Len(s.image_paths)]),
                <<Call("analyze", o.analyze)>>, ~o.reply)

\* the handler waiting in call resumes on the session object s
Resume(s, call, o, t) ==
    IF call.name = "analyze" THEN Try(ResumeAnalysis(s, call, o, t), o)
    ELSE Try(ResumeDetection(s, call, o, t), o)

\* the handler of text has updated the session to s2 and now waits in its call
Suspend(user_id, text, s2) ==
    /\ Len(s2.image_paths) > 0 /\ HasPriceAndId(s2)
    /\ sessions' = [sessions EXCEPT ![user_id] = Some(s2)]
    /\ pending' = [pending EXCEPT ![user_id] =
                      Some([text |-> text,
                            name |-> IF MeasurementsReady(s2) THEN "analyze"
                                     ELSE "detect_category",
                            image_paths |-> s2.image_paths, text_input |-> s2.text_input,
                            stored |-> s2])]
    /\ UNCHANGED <<now, last, calc>>

\* process_text_message of a text handled in the IDLE or COLLECTING branch, up to the call
\* of the vision service in start_analysis or start_category_detection
CallOut(user_id, text) ==
    /\ pending[user_id] = None
    /\ ~CommandTable[text].reset /\ ~CommandTable[text].sale
    /\ get_session(sessions, user_id, now).state
          \notin {WAITING_SALE_INFO, "CONFIRMING", "WAITING_MEASUREMENTS"}
    /\ Suspend(user_id, text, CollectFields(get_session(sessions, user_id, now), text, now))

\* the waiting handler has run to its end with the result r
Finish(user_id, text, r) ==
    /\ sessions' = [sessions EXCEPT ![user_id] = Some(r.session)]
    /\ last' = Handled(user_id, "text", text, sessions[user_id], r)
    /\ pending' = [pending EXCEPT ![user_id] = None]
    /\ UNCHANGED <<now, calc>>

\* the vision service answers: the waiting handler of user_id runs to its end on the
\* session object, whatever the handlers that ran meanwhile have made of it
CallBack(user_id) ==
    /\ pending[user_id] # None
    /\ \E o \in AnalysisOutcomes \cup DetectionOutcomes :
          /\ Val(pending[user_id]).name = "analyze" => o \in AnalysisOutcomes
          /\ Val(pending[user_id]).name = "detect_category" => o \in DetectionOutcomes
          /\ Finish(user_id, Val(pending[user_id]).text,
                    Resume(Val(sessions[user_id]), Val(pending[user_id]), o, now))

\* the messages of the interleaved handlers
RaceTexts == {TxtReset, TxtPriceId}

NextInterleaved ==
    \/ \E u \in Users, text \in RaceTexts : process_text_message(u, text)
    \/ \E u \in Users, m \in MessageIds : process_image_message(u, m)
    \/ \E u \in Users, text \in RaceTexts : CallOut(u, text)
    \/ \E u \in Users : CallBack(u)

SpecInterleaved == Init /\ [][NextInterleaved]_vars

\* the messages of the handlers interleaved around feature analysis: the reset command
\* and a message with price, id and a complete group of measurements
AnalysisRaceTexts == {TxtReset, TxtVerbose}

NextAnalysisRace ==
    \/ \E u \in Users, text \in AnalysisRaceTexts : process_text_message(u, text)
    \/ \E u \in Users, m \in MessageIds : process_image_message(u, m)
    \/ \E u \in Users, text \in AnalysisRaceTexts : CallOut(u, text)
    \/ \E u \in Users : CallBack(u)

SpecAnalysisRace == Init /\ [][NextAnalysisRace]_vars

---------------------------------------------------------------------------
(* The pure functions, applied to inputs drawn from bounded sets *)

\* the largest purchase price
MaxPrice == 2000

\* feature summaries as ImageAnalyzer.analyze builds them
AnalysedFeatures == {BuildFeatures(ParseAllTable[<< >>], AIResult(n)) : n \in AIResultNames}

\* values of an edit: a name, a category label, a word for "no design"
EditValues == {<<"a">>, CategoryLabel("PANTS"), <<"na", "shi">>}

\* edit maps: those parse_input reads from the known texts, those of one field and
\* some of three fields
EditMaps ==
    {Val(ParseInputTable[text].modifications) :
         text \in {t \in Texts : ParseInputTable[t].modifications # None}}
    \cup {[f \in {FIELD_MAPPING[k]} |-> v] : k \in 1..Len(FIELD_MAPPING), v \in EditValues}
    \cup {[brand |-> <<"a">>, category |-> CategoryLabel(c), design |-> d] :
              c \in Categories, d \in EditValues}

\* feature summaries: the analysed ones and the ones edited once
FeatureInputs == AnalysedFeatures \cup {apply_modifications(f, m) : f \in AnalysedFeatures, m \in EditMaps}

\* the pieces strategy inputs are made of, and the inputs: up to two pieces in a row
StrategyPieces ==
    {<<"A">>, <<"a">>, <<"1">>, <<"B">>, <<"b">>, <<"2">>, <<"C">>, <<"c">>, <<"3">>,
     <<"D">>, <<"4">>, <<" ">>, <<"x", "y", "z">>, <<"MU", "KOU">>,
     StrategyPhrases[1], StrategyPhrases[2], StrategyPhrases[3]}
StrategyInputs == {<< >>} \cup StrategyPieces \cup {p \o q : p \in StrategyPieces, q \in StrategyPieces}

\* the values of a measurement field: absent, zero, a length in centimetres
FieldValues == {None, Some(0), Some(60)}

\* every assignment of the eight measurement fields
MeasurementSets ==
    [{"length", "width", "shoulder", "sleeve", "waist", "inseam", "hem_width", "rise"} -> FieldValues]

\* the most rows of a ledger below its header
MaxRows == 2

\* the rows of a ledger: ids as typed, read back as a float, and another id; with and
\* without a purchase price
LedgerRows ==
    {LedgerRow(i, p) : i \in {<<"2", "1", "5">>, <<"2", "1", "5", ".", "0">>, <<"2", "2", "2">>},
                       p \in {<<"8", "8", "0">>, << >>}}

\* the data rows of n rows at most
RECURSIVE RowLists(_)
RowLists(n) ==
    IF n = 0 THEN {<< >>}
    ELSE RowLists(n - 1) \cup {l \o <<r>> : l \in RowLists(n - 1), r \in LedgerRows}

\* the sheets: an empty one without a header, and the header with its data rows
Worksheets == {<< >>} \cup {<<HeaderRow>> \o l : l \in RowLists(MaxRows)}

\* the sales reported: an id in the ledger, an id not in it and the header's text as id;
\* prices with and without a remainder of the tenth
SaleIds == {<<"2", "1", "5">>, <<"9", "9", "9">>, HeaderId}
SalePrices == {0, 15, 2999, 3000}
ShippingCosts == {0, 700}

\* the prices the inference service may answer: none, zero, around the minimum price of
\* the purchase price 880, and well above it
AnsweredPrices == {None, Some(0), Some(1750), Some(1760), Some(1770), Some(3000)}
PricedPurchases == {0, 880}

\* the function fn is about to be applied to input
Request(fn, input) == [fn |-> fn, input |-> input, output |-> None]

\* the applications to make
Requests ==
    {Request("apply_modifications", <<f, m>>) : f \in FeatureInputs, m \in EditMaps}
    \cup {Request("calculate_minimum_price", p) : p \in 0..MaxPrice}
    \cup {Request("parse_strategy", text) : text \in StrategyInputs}
    \cup {Request("completeness", <<m, c>>) : m \in MeasurementSets, c \in Categories}
    \cup {Request("generate_price_suggestion",
                  [purchase_price |-> p,
                   answered |-> [lowest_acceptable |-> l, expected_price |-> e, start_price |-> s]]) :
             p \in PricedPurchases, l \in AnsweredPrices, e \in AnsweredPrices, s \in AnsweredPrices}
    \cup {Request("update_sale_info",
                  [worksheet |-> w, management_id |-> i, sale_price |-> p,
                   shipping_cost |-> c, api |-> a]) :
             w \in Worksheets, i \in SaleIds, p \in SalePrices, c \in ShippingCosts,
             a \in {"ok", "raise"}}

InitPure ==
    /\ sessions = [u \in Users |-> None]
    /\ now = 0
    /\ last = [user_id |-> "NONE", op |-> "none", text |-> << >>, pre_state |-> "NONE", replies |-> << >>, calls |-> << >>, raised |-> FALSE]
    /\ pending = [u \in Users |-> None]
    /\ calc \in Requests

\* the function fn gives output
Applied(fn, output) ==
    /\ calc.fn = fn /\ calc.output = None
    /\ calc' = [calc EXCEPT !.output = Some(output)]
    /\ UNCHANGED <<sessions, now, last, pending>>

\* FeatureRefiner.apply_modifications(features, modifications)
ApplyModifications ==
    Applied("apply_modifications", apply_modifications(calc.input[1], calc.input[2]))

\* PricingCalculator.calculate_minimum_price(purchase_price)
CalculateMinimumPrice ==
    Applied("calculate_minimum_price", calculate_minimum_price(calc.input))

\* PricingCalculator.parse_strategy(strategy_input)
ParseStrategy == Applied("parse_strategy", parse_strategy(calc.input))

\* the completeness checks of process_measurements_input and of the readiness branch
CheckCompleteness ==
    Applied("completeness",
            [tops |-> has_tops_measurements(calc.input[1]),
             pants |-> has_pants_measurements(calc.input[1]),
             required |-> RequiredComplete(calc.input[1], calc.input[2])])

\* SheetsClient.update_sale_info(management_id, sale_price, shipping_cost)
UpdateSaleInfo ==
    Applied("update_sale_info",
            update_sale_info(calc.input.worksheet, calc.input.management_id,
                             calc.input.sale_price, calc.input.shipping_cost, calc.input.api))

\* PricingCalculator.generate_price_suggestion(features, purchase_price, strategy)
PriceSuggestionGenerated ==
    Applied("generate_price_suggestion",
            generate_price_suggestion(calc.input.purchase_price, calc.input.answered))

NextPure ==
    \/ ApplyModifications
    \/ CalculateMinimumPrice
    \/ ParseStrategy
    \/ CheckCompleteness
    \/ UpdateSaleInfo
    \/ PriceSuggestionGenerated

SpecPure == InitPure /\ [][NextPure]_vars

---------------------------------------------------------------------------
(* The parsers, applied to inputs drawn from bounded sets *)

\* the pieces gender inputs are made of: every keyword, Latin keywords in other cases,
\* and text that is no keyword; the inputs are up to two pieces in a row
GenderPieces ==
    UNION {GenderKeywords[g] : g \in 1..3}
    \cup {<<"m", "e", "n">>, <<"W", "o", "m", "e", "n">>, <<"l", "a", "d", "i", "e", "s">>,
          <<"u", "n", "i", "s", "e", "x">>, <<"Y", "OU">>, <<" ">>, <<"L">>}
GenderInputs == {<< >>} \cup GenderPieces \cup {p \o q : p \in GenderPieces, q \in GenderPieces}

\* the largest number of digit runs in a measurement input
MaxRuns == 9

\* digit runs in ASCII, full-width and mixed digits, and what stands between them
RunPieces == << <<"6", "0">>, <<"5", "0">>, <<"4", "2">>, <<"FW2", "FW0">>, <<"8", "0">>,
                <<"7", "FW5">>, <<"0">>, <<"3", "0">>, <<"1", "0", "5">>, <<"9">> >>
RunSeparators == {<<" ">>, <<"FWSP">>, <<",", " ">>, <<"c", "m", "\n">>, <<".">>}

\* n digit runs, from the k-th piece on, with sep between them
RECURSIVE JoinRuns(_, _, _)
JoinRuns(n, k, sep) ==
    IF n = 0 THEN << >>
    ELSE IF n = 1 THEN RunPieces[(k % Len(RunPieces)) + 1]
    ELSE RunPieces[(k % Len(RunPieces)) + 1] \o sep \o JoinRuns(n - 1, k + 1, sep)

\* the measurement inputs: the joined runs, also after a word, and the known texts
MeasurementInputs ==
    {JoinRuns(n, k, sep) : n \in 0..MaxRuns, k \in 0..2, sep \in RunSeparators}
    \cup {<<"o", "k", " ">> \o JoinRuns(n, 0, <<" ">>) \o <<"c", "m">> : n \in 0..MaxRuns}
    \cup Texts

\* the text with every ASCII digit and space in its full-width spelling, and with every
\* full-width digit and space in its ASCII spelling
FullWidth(text) ==
    [i \in 1..Len(text) |->
        IF IsAsciiDigit(text[i]) THEN FullWidthDigits[DigitValue(text[i]) + 1]
        ELSE IF text[i] = " " THEN "FWSP" ELSE text[i]]
HalfWidth(text) ==
    [i \in 1..Len(text) |->
        IF IsFullWidthDigit(text[i]) THEN AsciiDigits[DigitValue(text[i]) + 1]
        ELSE IF text[i] = "FWSP" THEN " " ELSE text[i]]

\* what may follow price and id in a compact message: era forms and other digit runs
EraPieces == {<<"9", "0", "s">>, <<"FW9", "FW0", "s">>, <<"9", "0", "S">>,
              <<"2", "0", "0", "0">> \o EraSuffix, <<"9", "0">> \o EraSuffix,
              <<"3", "3", "3">>, <<"1", "9", "9", "0", "s">>, <<"0", "0", "7">>}

\* the compact inputs: up to three plain runs, price and id with a third piece, an id
\* with leading zeros, and the known texts
CompactInputs ==
    {JoinRuns(n, k, sep) : n \in 0..3, k \in 0..MaxRuns, sep \in RunSeparators}
    \cup {JoinRuns(2, k, sep) \o sep \o e : k \in {0, 5, 6}, sep \in RunSeparators, e \in EraPieces}
    \cup {JoinRuns(1, k, <<" ">>) \o <<" ">> \o e : k \in {0, 6}, e \in EraPieces}
    \cup Texts
    \cup {FullWidth(text) : text \in Texts}

\* the most lines of a confirmation reply
MaxLines == 3

\* lines of a confirmation reply: edits of the first field, an edit with a full-width
\* number and space, edits whose value is a strategy phrase, lone strategy tokens, numbers
\* outside the fields, a number with a leading zero, two phrases in one line, blank
\* lines, a number at the end, an edit after two spaces, edits whose value is a token
LinePieces ==
    {<<"1", " ", "a", "d", "i", "d", "a", "s">>, <<"1", " ", "n", "i", "k", "e">>,
     <<"FW1", "FWSP", "x">>, <<"2", " ">> \o StrategyPhrases[2], <<"2", " ">> \o StrategyPhrases[3],
     <<"A">>, <<"c">>, <<"2">>, <<"9", " ", "x">>, <<"0", " ", "x">>, <<"0", "1", " ", "x">>,
     StrategyPhrases[1] \o StrategyPhrases[3], << >>, <<" ">>, <<"x", " ", "1">>,
     <<"8", " ", " ", "9", "0", "s">>, <<"1", " ", "2">>, <<"1", " ", "A">>}

\* the lines a reply goes on with after its second line
LaterPieces ==
    {<<"1", " ", "n", "i", "k", "e">>, <<"A">>, <<"2", " ">> \o StrategyPhrases[3], << >>}

\* the replies of n lines at most
RECURSIVE Replies(_)
Replies(n) ==
    IF n = 1 THEN LinePieces
    ELSE Replies(n - 1) \cup {r \o <<"\n">> \o l : r \in Replies(n - 1),
                                                  l \in IF n = 2 THEN LinePieces ELSE LaterPieces}

\* the applications of the parsers to make
ParseRequests ==
    {Request("parse_gender", text) : text \in GenderInputs}
    \cup {Request("parse_measurements_simple", <<text, c>>) :
             text \in MeasurementInputs, c \in Categories}
    \cup {Request("parse_price_and_id", text) : text \in CompactInputs}
    \cup {Request("parse_input", text) : text \in Replies(MaxLines) \cup Texts}

InitParse ==
    /\ sessions = [u \in Users |-> None]
    /\ now = 0
    /\ last = [user_id |-> "NONE", op |-> "none", text |-> << >>, pre_state |-> "NONE", replies |-> << >>, calls |-> << >>, raised |-> FALSE]
    /\ pending = [u \in Users |-> None]
    /\ calc \in ParseRequests

\* TextParser.parse_gender(text)
ParseGender == Applied("parse_gender", parse_gender(calc.input))

\* TextParser.parse_measurements_simple(text, category)
ParseMeasurementsSimple ==
    Applied("parse_measurements_simple",
            parse_measurements_simple(calc.input[1], calc.input[2]))

\* TextParser.parse_price_and_id(text)
ParsePriceAndId == Applied("parse_price_and_id", parse_price_and_id(calc.input))

\* FeatureRefiner.parse_input(text)
ParseInput == Applied("parse_input", parse_input(calc.input))

NextParse ==
    \/ ParseGender
    \/ ParseMeasurementsSimple
    \/ ParsePriceAndId
    \/ ParseInput

SpecParse == InitParse /\ [][NextParse]_vars

TypeOK ==
    /\ now \in 0..(MaxTicks * TickSeconds)
    /\ \A u \in Users : sessions[u] # None =>
          /\ Val(sessions[u]).state \in SessionState \cup {WAITING_SALE_INFO}
          /\ Val(sessions[u]).updated_at <= now

---------------------------------------------------------------------------
(* Properties *)

HasSession(u) == sessions[u] # None
Stored(u) == Val(sessions[u])

\* the session get_session hands to the handler of a message arriving now
Entry(u) == get_session(sessions, u, now)

\* the names of the collaborator calls of the message handled last, and their results
CallNames(h) == {h.calls[i].name : i \in 1..Len(h.calls)}
Raised(h, name) == \E i \in 1..Len(h.calls) : h.calls[i].name = name /\ h.calls[i].result = "raise"
Succeeded(h, name) == \E i \in 1..Len(h.calls) : h.calls[i].name = name /\ h.calls[i].result # "raise"
ReplyKinds(h) == {h.replies[i].kind : i \in 1..Len(h.replies)}

\* every collected field is absent and the image list is empty
IsCleared(s) ==
    /\ s.state = "IDLE"
    /\ s.image_paths = << >>
    /\ s.purchase_price = None /\ s.management_id = None /\ s.measurements = None
    /\ s.gender = None /\ s.size = None /\ s.era = None
    /\ s.detected_category = None /\ s.features = None /\ s.product = None
    /\ ~has_required_data(s)

\* C1: in every reachable state, a session whose state is CONFIRMING has features set
C1_ConfirmingHasFeatures ==
    \A u \in Users : (HasSession(u) /\ Stored(u).state = "CONFIRMING") => Stored(u).features # None

\* a session has reached CONFIRMING through a successful analysis
C1_ConfirmingReached ==
    \E u \in Users : /\ HasSession(u) /\ Stored(u).state = "CONFIRMING"
                     /\ Stored(u).features # None
                     /\ Succeeded(last, "analyze")

\* the spellings of the reset command: the four words, padded and in another case
ResetSpellings ==
    ResetCommands \cup {TxtResetPadded, <<"C", "a", "n", "c", "e", "l">>,
                        <<" ", "R", "E", "S", "E", "T", "\n">>,
                        <<"FWSP", "KI", "XYA", "NN", "SE", "RU", " ">>}

\* the reset commands among the messages sent
ResetTexts == {text \in IntakeTexts : IsResetCommand(text)}

\* every spelling is taken for the command, and the two sent are among them
ResetSpellingsRecognised ==
    /\ \A text \in ResetSpellings : IsResetCommand(text)
    /\ ResetTexts = {TxtReset, TxtResetPadded}

\* C2: a reset command, in any of its spellings and handled in any session state, leaves
\* the session in IDLE with an empty image list and every collected field absent, so
\* that has_required_data is false
C2_ResetClears ==
    [][/\ ResetSpellingsRecognised
       /\ \A u \in Users, text \in ResetTexts :
             (last'.op = "text" /\ process_text_message(u, text)) => IsCleared(Val(sessions'[u]))]_vars

\* a reset has been handled for a session that was waiting for confirmation
C2_ResetFromConfirming ==
    \E u \in Users : /\ HasSession(u) /\ IsCleared(Stored(u))
                     /\ last.pre_state = "CONFIRMING"
                     /\ ReplyKinds(last) = {"reset_done"}

\* the first instant at which the stored session of u is past the inactivity timeout
ExpiryOf(u) == Stored(u).updated_at + SESSION_TIMEOUT_MINUTES * 60 + 1

\* C3: no state is a trap: from every reachable state a reset command, and the next
\* access after the inactivity timeout, bring the session to IDLE
C3_NoTrap ==
    \A u \in Users : HasSession(u) =>
        /\ \A text \in ResetTexts : \A o \in TextOutcomes(Entry(u), text, now) :
              process_text(Entry(u), text, o, now).session.state = "IDLE"
        /\ is_expired(Stored(u), ExpiryOf(u))
        /\ ~is_expired(Stored(u), ExpiryOf(u) - 1)
        /\ IsCleared(get_session(sessions, u, ExpiryOf(u)))

\* a session left in GENERATING by a failed generation has outlived the timeout
C3_StuckAndExpired ==
    \E u \in Users : /\ HasSession(u) /\ Stored(u).state = "GENERATING"
                     /\ is_expired(Stored(u), now)

\* the collaborator calls whose failure the handlers catch
CollaboratorRaised(h) ==
    \/ Raised(h, "detect_category") \/ Raised(h, "analyze")
    \/ Raised(h, "generate_all") \/ Raised(h, "generate_price_suggestion")

\* an error text has been sent to the user
ErrorReplied(h) == ReplyKinds(h) \cap {"error", "generation_error"} # {}

\* C4: whenever a message handled in CONFIRMING triggers generation, the session is back
\* in IDLE when the handling of that message ends, whether generation succeeds or a
\* generation collaborator raises; no handled message leaves a session in GENERATING
C4_GenerationEndsInIdle ==
    [][\A u \in Users :
          /\ (now' = now /\ last'.op = "text" /\ Entry(u).state = "CONFIRMING"
                /\ "generate_all" \in CallNames(last'))
                => Val(sessions'[u]).state = "IDLE"
          /\ sessions'[u] # None => Val(sessions'[u]).state # "GENERATING"]_vars

\* a generation that raised has left the session in GENERATING
C4_LeftInGenerating ==
    \E u \in Users : /\ HasSession(u) /\ Stored(u).state = "GENERATING"
                     /\ last.pre_state = "CONFIRMING"
                     /\ Raised(last, "generate_all")

\* C5: when category detection, feature analysis or generation raises while a message is
\* handled, the user gets an error reply and the state after the handler equals the state
\* the session had before the message
C5_FailureKeepsState ==
    [][\A u \in Users :
          (now' = now /\ CollaboratorRaised(last'))
             => /\ ErrorReplied(last')
                /\ Val(sessions'[u]).state = Entry(u).state]_vars

\* a failed collaborator call has been answered with an error text and the state moved
C5_FailureMovedState ==
    \E u \in Users : /\ HasSession(u) /\ CollaboratorRaised(last) /\ ErrorReplied(last)
                     /\ Stored(u).state # last.pre_state

\* the states in which an image is turned away
RejectingStates == {"CONFIRMING", "WAITING_MEASUREMENTS"}

\* C6: an image handled while an unexpired session is in CONFIRMING or
\* WAITING_MEASUREMENTS changes no field of the session (state, image list, update time,
\* collected fields), downloads nothing and is answered with the guidance reply only
C6_ImageRejectedUntouched ==
    [][\A u \in Users, m \in MessageIds :
          (/\ last'.op = "image"
           /\ HasSession(u) /\ ~is_expired(Stored(u), now)
           /\ Stored(u).state \in RejectingStates
           /\ process_image_message(u, m))
             => /\ sessions'[u] = sessions[u]
                /\ last'.calls = << >>
                /\ last'.replies = <<[kind |-> "image_rejected"]>>]_vars

\* an image has been turned away from a session that waits for measurements, some time
\* after its last update
C6_ImageRejected ==
    \E u \in Users : /\ HasSession(u) /\ Stored(u).state = "WAITING_MEASUREMENTS"
                     /\ last.op = "image" /\ ReplyKinds(last) = {"image_rejected"}
                     /\ Stored(u).updated_at < now

\* C7: an image handled in any other state whose download succeeds is appended at the end
\* of the image list and the state is COLLECTING unless the readiness branch then moves
\* it on; when the download raises, image list and state are unchanged
C7_ImageAppended ==
    [][\A u \in Users, m \in MessageIds :
          (/\ last'.op = "image"
           /\ Entry(u).state \notin RejectingStates
           /\ process_image_message(u, m))
             => LET post == Val(sessions'[u])
                IN  IF Succeeded(last', "download_image")
                    THEN /\ post.image_paths = Append(Entry(u).image_paths, m)
                         /\ post.state = IF Succeeded(last', "analyze") THEN "CONFIRMING"
                                         ELSE IF Succeeded(last', "detect_category")
                                         THEN "WAITING_MEASUREMENTS"
                                         ELSE "COLLECTING"
                    ELSE /\ Raised(last', "download_image")
                         /\ post.image_paths = Entry(u).image_paths
                         /\ post.state = Entry(u).state]_vars

\* a second image has been downloaded and stored behind the first
C7_SecondImageStored ==
    \E u \in Users : /\ HasSession(u) /\ Len(Stored(u).image_paths) = 2
                     /\ last.op = "image" /\ Succeeded(last, "download_image")

\* the result of the call of the collaborator name during the message handled last
ResultOf(h, name) == h.calls[CHOOSE i \in 1..Len(h.calls) : h.calls[i].name = name].result

\* every field of the group is present (non-null)
AllPresent(m, fields) == \A i \in 1..Len(fields) : m[fields[i]] # None

\* a stored measurement set complete for the upper-body or the lower-body group
CompleteForSomeCategory(measurements) ==
    /\ measurements # None
    /\ AllPresent(Val(measurements), TopsFields) \/ AllPresent(Val(measurements), PantsFields)

\* the states whose text and image messages go through the readiness branch
IntakeStates == {"IDLE", "COLLECTING"}

\* a message has just gone through the intake of an IDLE or COLLECTING session of u:
\* no command, no failed download
IntakeStep(u) ==
    /\ now' = now
    /\ last'.op \in {"text", "image"}
    /\ Entry(u).state \in IntakeStates
    /\ ReplyKinds(last') \cap {"reset_done", "sale_prompt"} = {}
    /\ ~Raised(last', "download_image")

\* C8: after a text or an image is processed in IDLE or COLLECTING with at least one image
\* and price and id present, analysis is invoked when the measurements are complete for a
\* category and its success gives CONFIRMING; otherwise category detection is invoked and
\* its success gives WAITING_MEASUREMENTS with the reported category
C8_ReadinessBranch ==
    [][\A u \in Users :
          LET post == Val(sessions'[u])
          IN  (/\ IntakeStep(u)
               /\ Len(post.image_paths) > 0
               /\ post.purchase_price # None /\ post.management_id # None)
                 => IF CompleteForSomeCategory(post.measurements)
                    THEN /\ "analyze" \in CallNames(last')
                         /\ Succeeded(last', "analyze") => post.state = "CONFIRMING"
                    ELSE /\ "detect_category" \in CallNames(last')
                         /\ Succeeded(last', "detect_category") =>
                               /\ post.state = "WAITING_MEASUREMENTS"
                               /\ post.detected_category
                                     = Some(ResultOf(last', "detect_category"))]_vars

\* a session holds an image, the price 0 and an id, and the text that completed it
\* started neither analysis nor category detection
C8_ZeroPriceNotReady ==
    \E u \in Users : /\ HasSession(u) /\ Stored(u).state = "COLLECTING"
                     /\ Len(Stored(u).image_paths) > 0
                     /\ Stored(u).purchase_price = Some(0) /\ Stored(u).management_id # None
                     /\ last.text = TxtZeroPrice /\ last.calls = << >>

\* the inputs the session s still lacks
Lacking(s) ==
    (IF Len(s.image_paths) = 0 THEN {"IMAGE"} ELSE {})
    \cup (IF s.purchase_price = None THEN {"PRICE"} ELSE {})
    \cup (IF s.management_id = None THEN {"ID"} ELSE {})

\* C9: a text processed in IDLE or COLLECTING that triggers neither analysis nor category
\* detection leaves the session in COLLECTING and its reply names exactly the inputs among
\* image, price and id the session lacks, at least one
C9_MissingNamed ==
    [][\A u \in Users :
          LET post == Val(sessions'[u])
          IN  (/\ IntakeStep(u) /\ last'.op = "text"
               /\ CallNames(last') \cap {"analyze", "detect_category"} = {})
                 => /\ post.state = "COLLECTING"
                    /\ Len(last'.replies) = 1
                    /\ last'.replies[1].kind = "missing"
                    /\ {last'.replies[1].items[i] : i \in 1..Len(last'.replies[1].items)}
                          = Lacking(post)
                    /\ Lacking(post) # {}]_vars

\* a text has been answered with the bare acknowledgement
C9_BareAcknowledgement ==
    \E u \in Users : /\ HasSession(u) /\ Stored(u).state = "COLLECTING"
                     /\ last.op = "text" /\ ReplyKinds(last) = {"accepted"}

\* the fields a category requires, in prompt order
RequiredFields(category) ==
    IF category = "PANTS" THEN PantsFields
    ELSE IF category = "SETUP" THEN TopsFields \o PantsFields
    ELSE TopsFields

\* C10: in WAITING_MEASUREMENTS a text whose digit runs do not fill every field the
\* detected category requires leaves state and measurements unchanged and is answered with
\* the re-prompt for that category; a text that fills them stores the measurements, starts
\* the analysis, and a successful analysis gives CONFIRMING
C10_MeasurementsInput ==
    [][\A u \in Users :
          LET post == Val(sessions'[u])
              category == MeasurementCategory(Entry(u))
              parsed == ParseMeasurementsSimpleTable[last'.text][category]
          IN  (/\ now' = now /\ last'.op = "text"
               /\ Entry(u).state = "WAITING_MEASUREMENTS"
               /\ ReplyKinds(last') \cap {"reset_done", "sale_prompt"} = {})
                 => IF ~AllPresent(parsed, RequiredFields(category))
                    THEN /\ post.state = "WAITING_MEASUREMENTS"
                         /\ post.measurements = Entry(u).measurements
                         /\ last'.replies = <<[kind |-> "measurement_reprompt",
                                               category |-> category]>>
                    ELSE /\ post.measurements = Some(parsed)
                         /\ "analyze" \in CallNames(last')
                         /\ Succeeded(last', "analyze") => post.state = "CONFIRMING"]_vars

\* four digit runs, the first of them 0, have been answered with the re-prompt for the
\* upper-body fields
C10_ZeroNotStored ==
    \E u \in Users : /\ HasSession(u) /\ Stored(u).state = "WAITING_MEASUREMENTS"
                     /\ Stored(u).detected_category = Some("TOPS")
                     /\ last.text = TxtFourZero
                     /\ ReplyKinds(last) = {"measurement_reprompt"}

---------------------------------------------------------------------------
(* The confirmation flow *)

\* a text has just been handled by process_confirmation_response for the session of u
ConfirmationStep(u) ==
    /\ now' = now
    /\ last'.op = "text"
    /\ Entry(u).state = "CONFIRMING"
    /\ ReplyKinds(last') \cap {"reset_done", "sale_prompt"} = {}

\* the fields of the feature summary an edit can name
EditableFields == {FIELD_MAPPING[i] : i \in 1..Len(FIELD_MAPPING)}

\* the value the field f of the summary features has once the edit map m is in effect
EditedValue(features, m, f) ==
    IF f \notin DOMAIN m THEN features[f]
    ELSE IF f = "category"
    THEN IF \E c \in Categories : CategoryLabel(c) = m[f]
         THEN CHOOSE c \in Categories : CategoryLabel(c) = m[f]
         ELSE features[f]
    ELSE IF f = "design" THEN (IF m[f] \in DesignNoneWords THEN None ELSE Some(m[f]))
    ELSE IF f = "era" THEN Some(m[f])
    ELSE m[f]

\* the summary after is the summary before with exactly the edits of m in effect
IsEdited(before, after, m) ==
    /\ \A f \in EditableFields : after[f] = EditedValue(before, m, f)
    /\ \A f \in (DOMAIN before) \ EditableFields : after[f] = before[f]

\* C11: in CONFIRMING a message with at least one edit and no strategy puts the edits
\* into features and leaves the state CONFIRMING and every other field but the update
\* time as it was; a message with neither an edit nor a strategy leaves the whole session
\* unchanged
C11_EditsApplied ==
    [][\A u \in Users :
          LET pre == Entry(u)
              post == Val(sessions'[u])
              parsed == ParseInputTable[last'.text]
          IN  (ConfirmationStep(u) /\ parsed.strategy = None)
                 => IF parsed.modifications # None
                    THEN /\ post.state = "CONFIRMING"
                         /\ post.features # None
                         /\ IsEdited(Val(pre.features), Val(post.features),
                                     Val(parsed.modifications))
                         /\ [post EXCEPT !.features = pre.features,
                                         !.updated_at = pre.updated_at] = pre
                    ELSE /\ post = pre
                         /\ sessions'[u] = sessions[u]]_vars

\* a category edit has been applied to a summary that had another category, and the
\* session still waits for the confirmation
C11_CategoryEdited ==
    \E u \in Users : /\ HasSession(u) /\ Stored(u).state = "CONFIRMING"
                     /\ last.text = TxtEditCategory /\ last.pre_state = "CONFIRMING"
                     /\ ReplyKinds(last) = {"modified"}
                     /\ Val(Stored(u).features).category = "PANTS"
                     /\ Val(Stored(u).features).brand = UNKNOWN

\* the calls of h to generator.generate_all
GenerateAllCalls(h) == {i \in 1..Len(h.calls) : h.calls[i].name = "generate_all"}
\* the calls of h to generate_price_suggestion
PricingCalls(h) == {i \in 1..Len(h.calls) : h.calls[i].name = "generate_price_suggestion"}

\* C12: in CONFIRMING a message with a strategy starts generation within its own
\* handling, also when it carries edits, and the summary handed to generation is the
\* edited one, priced for the strategy of the message: "1 adidas", "3" with the hoodie
\* word and "B" give the brand adidas, the item type hoodie and the balanced strategy
C12_EditsBeforeGeneration ==
    [][\A u \in Users :
          LET pre == Entry(u)
              parsed == ParseInputTable[last'.text]
              m == IF parsed.modifications = None THEN NoModifications
                   ELSE Val(parsed.modifications)
          IN  (ConfirmationStep(u) /\ parsed.strategy # None)
                 => /\ GenerateAllCalls(last') # {}
                    /\ \A i \in GenerateAllCalls(last') :
                          /\ last'.calls[i].features # None
                          /\ IsEdited(Val(pre.features), Val(last'.calls[i].features), m)
                          /\ last'.text = TxtEditThree =>
                                /\ Val(last'.calls[i].features).brand
                                      = <<"a", "d", "i", "d", "a", "s">>
                                /\ Val(last'.calls[i].features).item_type
                                      = <<"PA", "CHOON", "KA", "CHOON">>
                    /\ \A i \in PricingCalls(last') :
                          /\ last'.calls[i].strategy = Val(parsed.strategy)
                          /\ last'.text = TxtEditThree => last'.calls[i].strategy = "BALANCED"]_vars

\* the three-line message has been answered with the generated result: generation got
\* the brand adidas and priced for the balanced strategy
C12_EditedAndGenerated ==
    /\ last.text = TxtEditThree /\ last.pre_state = "CONFIRMING"
    /\ \E i \in GenerateAllCalls(last) :
          Val(last.calls[i].features).brand = <<"a", "d", "i", "d", "a", "s">>
    /\ \E i \in 1..Len(last.replies) :
          last.replies[i].kind = "result" /\ last.replies[i].strategy = "BALANCED"

---------------------------------------------------------------------------
(* The sale flow *)

\* the spellings of the sale command: the three words, also padded
SaleSpellings ==
    SaleCommands \cup {TxtSold, <<"HAN", "BAI", "KAN", "RYOU", "\n">>, <<"FWSP", "BAI", "KYAKU">>}

\* the sale commands among the messages sent
SaleTexts == {text \in SaleFlowTexts : IsSaleCommand(text)}

\* every spelling is taken for the sale command and none for the reset command, and the
\* two sent are among them
SaleSpellingsRecognised ==
    /\ \A text \in SaleSpellings : IsSaleCommand(text) /\ ~IsResetCommand(text)
    /\ SaleTexts = {TxtSale, TxtSold}

\* C13: a sale command, handled in any session state, leaves the session with every
\* collected field absent, an empty image list and the state WAITING_SALE_INFO
C13_SaleClears ==
    [][/\ SaleSpellingsRecognised
       /\ \A u \in Users, text \in SaleTexts :
             (now' = now /\ last'.op = "text" /\ last'.text = text)
                => /\ Val(sessions'[u]) = [NewSession(u, now) EXCEPT !.state = WAITING_SALE_INFO]
                   /\ IsCleared([Val(sessions'[u]) EXCEPT !.state = "IDLE"])]_vars

\* the sale command has been handled for a session that was waiting for confirmation
C13_SaleFromConfirming ==
    \E u \in Users : /\ HasSession(u) /\ Stored(u).state = WAITING_SALE_INFO
                     /\ Stored(u).image_paths = << >> /\ Stored(u).features = None
                     /\ last.text = TxtSold /\ last.pre_state = "CONFIRMING"
                     /\ ReplyKinds(last) = {"sale_prompt"}

\* a text has just been handled by process_sale_info_input for the session of u
SaleInfoStep(u) ==
    /\ now' = now
    /\ last'.op = "text"
    /\ Entry(u).state = WAITING_SALE_INFO
    /\ ReplyKinds(last') \cap {"reset_done", "sale_prompt"} = {}

---------------------------------------------------------------------------
(* The session store *)

\* the stored session of u is past the inactivity timeout
Expired(u) == HasSession(u) /\ now - Stored(u).updated_at > SESSION_TIMEOUT_MINUTES * 60

\* the message handled last is handled on the session s as the handlers do it, with some
\* outcome of the collaborators, and leaves the session post
HandledAsOn(s, h, post) ==
    IF h.op = "text"
    THEN \E o \in TextOutcomes(s, h.text, now) :
            LET r == process_text(s, h.text, o, now)
            IN  r.session = post /\ r.replies = h.replies /\ r.calls = h.calls
    ELSE \E m \in MessageIds : \E o \in ImageOutcomes(s, m, now) :
            LET r == process_image(s, m, o, now)
            IN  r.session = post /\ r.replies = h.replies /\ r.calls = h.calls

\* C15: get_session returns the stored session as it is when there is one and it is not
\* expired; an expired one is returned reset (state IDLE, every collected field absent,
\* the same user id) and the message that caused the access is handled as for a session
\* in IDLE; when there is none it returns a new session in IDLE with empty fields
C15_GetSession ==
    [][\A u \in Users :
          /\ (HasSession(u) /\ ~Expired(u)) => Entry(u) = Stored(u)
          /\ ~HasSession(u) => /\ Entry(u).state = "IDLE" /\ IsCleared(Entry(u))
                               /\ Entry(u) = NewSession(u, now)
          /\ Expired(u) =>
                /\ Entry(u).state = "IDLE" /\ IsCleared(Entry(u))
                /\ Entry(u).user_id = Stored(u).user_id
                /\ Entry(u).text_input = << >> /\ Entry(u).description_text = << >>
                /\ (now' = now /\ last'.op \in {"text", "image"})
                      => /\ last'.pre_state = Stored(u).state
                         /\ HandledAsOn(NewSession(u, now), last', Val(sessions'[u]))]_vars

\* a strategy letter sent to a session that waited for confirmation past the timeout has
\* been taken as the first message of a new intake
C15_ExpiredTakenAsIdle ==
    \E u \in Users : /\ HasSession(u) /\ Stored(u).state = "COLLECTING"
                     /\ Stored(u).features = None /\ Stored(u).image_paths = << >>
                     /\ Stored(u).updated_at = now
                     /\ last.text = TxtStrategy /\ last.pre_state = "CONFIRMING"
                     /\ ReplyKinds(last) = {"missing"}

---------------------------------------------------------------------------
(* Concurrent handlers of one user *)

\* the waiting handler of u finishes in this step
Finishes(u) == pending[u] # None /\ pending'[u] = None

\* a reset of u completed while the handler of u was waiting: the stored session is the
\* cleared one, not the one the handler left
ResetOvertook(u) ==
    /\ pending[u] # None
    /\ sessions[u] # None
    /\ Val(sessions[u]).state = "IDLE"
    /\ Len(Val(sessions[u]).image_paths) = 0
    /\ Val(sessions[u]).purchase_price = None

\* C16: a handler's get -> mutate -> update sequence is atomic with respect to the other
\* handlers of the same user: the handler that waited finishes on the session it left
\* when it began to wait, and so a reset that completed in the meantime is never undone
\* (the session does not leave IDLE by the step that finishes the earlier handler)
C16_HandlersAtomic ==
    [][\A u \in Users :
        Finishes(u) =>
            /\ sessions[u] = Some(Val(pending[u]).stored)
            /\ ResetOvertook(u) => Val(sessions'[u]).state = "IDLE"]_vars

\* C16, the lost update: the session is WAITING_MEASUREMENTS with no image and no price,
\* which the earlier handler made of the session a reset had cleared
C16_ResetUndone ==
    \E u \in Users :
        /\ sessions[u] # None
        /\ Val(sessions[u]).state = "WAITING_MEASUREMENTS"
        /\ Len(Val(sessions[u]).image_paths) = 0
        /\ Val(sessions[u]).purchase_price = None
        /\ last.pre_state = "IDLE"

---------------------------------------------------------------------------
(* The order of the intake messages *)

\* the compact 'price id' texts
CompactTexts == {TxtPriceId, TxtZeroPrice}

\* the session of u cleared at the present time: a fresh session
Fresh(u) == reset(Entry(u), now)

\* all collaborators succeed and category detection answers d
Detecting(d) == [QuietOutcome EXCEPT !.detect = d]

\* the text handled on the fresh session of u
TextFirst(u, text) == process_text(Fresh(u), text, QuietOutcome, now)

\* the text and then the image m
TextThenImage(u, text, m, d) ==
    process_image(TextFirst(u, text).session, m, Detecting(d), now)

\* the image m and then the text
ImageThenText(u, text, m, d) ==
    process_text(process_image(Fresh(u), m, QuietOutcome, now).session, text, Detecting(d), now)

\* both sessions are WAITING_MEASUREMENTS with the same price, id, images and category
SameIntake(a, b) ==
    /\ a.state = "WAITING_MEASUREMENTS" /\ b.state = "WAITING_MEASUREMENTS"
    /\ a.purchase_price = b.purchase_price /\ a.purchase_price # None
    /\ a.management_id = b.management_id /\ a.management_id # None
    /\ a.image_paths = b.image_paths /\ Len(a.image_paths) = 1
    /\ a.detected_category = b.detected_category /\ a.detected_category # None

\* C17: from a fresh session, a compact 'price id' text followed by one image and the
\* image followed by the same text both end, when category detection succeeds, in
\* WAITING_MEASUREMENTS with the same price, id, images and detected category, and in the
\* text-first order the reply to the text lists the image alone as missing
C17_OrderIndependent ==
    \A u \in Users, text \in CompactTexts, m \in MessageIds, d \in Categories :
        /\ SameIntake(TextThenImage(u, text, m, d).session, ImageThenText(u, text, m, d).session)
        /\ TextFirst(u, text).replies = <<[kind |-> "missing", items |-> <<"IMAGE">>]>>

\* C17 for the non-zero prices: the two orders agree
C17_OrderIndependentNonZero ==
    \A u \in Users, m \in MessageIds, d \in Categories :
        /\ SameIntake(TextThenImage(u, TxtPriceId, m, d).session,
                      ImageThenText(u, TxtPriceId, m, d).session)
        /\ TextFirst(u, TxtPriceId).replies = <<[kind |-> "missing", items |-> <<"IMAGE">>]>>

\* C17, the failing case: the text '0 222' came first, the image after it, category
\* detection was not asked and the session is still COLLECTING
C17_ZeroPriceTextFirst ==
    \E u \in Users : /\ HasSession(u) /\ Stored(u).state = "COLLECTING"
                     /\ Len(Stored(u).image_paths) = 1
                     /\ Stored(u).purchase_price = Some(0) /\ Stored(u).management_id # None
                     /\ Stored(u).text_input = TxtZeroPrice
                     /\ last.op = "image" /\ last.pre_state = "COLLECTING"
                     /\ last.calls = <<Call("download_image", "ok")>>

---------------------------------------------------------------------------
(* The pure functions *)

\* C18: apply_modifications is idempotent: applying the edit map m to the result of
\* applying m to the feature summary f gives that result again
C18_Idempotent ==
    calc.fn = "apply_modifications" /\ calc.output # None =>
        apply_modifications(Val(calc.output), calc.input[2]) = Val(calc.output)

\* an edit map of three fields, one of them the category, was applied to a summary that
\* an earlier edit had changed, and it changed the summary again
C18_ThreeFieldsApplied ==
    /\ calc.fn = "apply_modifications" /\ calc.output # None
    /\ DOMAIN calc.input[2] = {"brand", "category", "design"}
    /\ calc.input[1] \notin AnalysedFeatures
    /\ Val(calc.output) # calc.input[1]
    /\ Val(calc.output).category # calc.input[1].category

\* the price the seller must at least ask for the purchase price p, times (1 - fee rate),
\* the whole in hundredths of a yen
Needed(p) == (p + SHIPPING_COST + MINIMUM_PROFIT) * 100

\* out is the smallest multiple of 10 that is not below Needed(p) / (100 - fee percent)
SmallestMultipleOfTen(out, p) ==
    /\ out % 10 = 0
    /\ out * (100 - MERCARI_FEE_PERCENT) >= Needed(p)
    /\ (out - 10) * (100 - MERCARI_FEE_PERCENT) < Needed(p)

\* the prices the test suite names, with the minimum prices it expects
NamedPrices == {<<800, 1670>>, <<500, 1340>>, <<1000, 1890>>, <<1500, 2450>>, <<2000, 3000>>}

\* C19: calculate_minimum_price(p) is the smallest multiple of 10 greater than or equal to
\* (p + shipping cost + minimum profit) / (1 - fee rate); with 500, 200 and 10% it gives
\* 1670 for 800, 1340 for 500, 1890 for 1000, 2450 for 1500 and exactly 3000 for 2000
C19_MinimumPrice ==
    calc.fn = "calculate_minimum_price" /\ calc.output # None =>
        /\ SmallestMultipleOfTen(Val(calc.output), calc.input)
        /\ \A c \in NamedPrices : calc.input = c[1] => Val(calc.output) = c[2]

\* the exact quotient: the minimum price of 2000 was computed and is 3000
C19_ExactQuotient ==
    /\ calc.fn = "calculate_minimum_price" /\ calc.input = 2000
    /\ calc.output = Some(3000)
    /\ 3000 * (100 - MERCARI_FEE_PERCENT) = Needed(2000)

\* the input, surrounding whitespace and letter case apart, is one of the tokens
\* of the k-th strategy (A, a, 1 for the first), or contains the k-th phrase
IsToken(text, k) == Len(Strip(text)) = 1 /\ Strip(text)[1] \in StrategyTokens[k]
HasPhrase(text, k) == Contains(text, StrategyPhrases[k])
IsAnyToken(text) == \E k \in 1..3 : IsToken(text, k)

\* C20 as stated: parse_strategy maps A/a/1 and any input containing the first phrase to
\* HIGH_PROFIT, B/b/2 and any input containing the second phrase to BALANCED, C/c/3 and
\* any input containing the third phrase to QUICK_SALE, raises ValueError for every other
\* input, the empty string included, and returns no value outside the three strategies
C20_ParseStrategyAsStated ==
    calc.fn = "parse_strategy" /\ calc.output # None =>
        /\ \A k \in 1..3 :
              IsToken(calc.input, k) \/ HasPhrase(calc.input, k)
                  => Val(calc.output) = Returned(Strategies[k])
        /\ (\A k \in 1..3 : ~IsToken(calc.input, k) /\ ~HasPhrase(calc.input, k))
              => Val(calc.output) = ValueError
        /\ Val(calc.output) \in {Returned(Strategies[k]) : k \in 1..3} \cup {ValueError}

\* the strategy of an input that is no token: that of the first phrase it contains, in the
\* order high profit, balanced, quick sale
FirstPhrase(text) ==
    IF HasPhrase(text, 1) THEN Returned(Strategies[1])
    ELSE IF HasPhrase(text, 2) THEN Returned(Strategies[2])
    ELSE IF HasPhrase(text, 3) THEN Returned(Strategies[3])
    ELSE ValueError

\* C20, amended: parse_strategy maps A/a/1 to HIGH_PROFIT, B/b/2 to BALANCED and C/c/3 to
\* QUICK_SALE; any other input it maps by the first phrase it contains, in the order
\* high profit, balanced, quick sale (an input with two phrases takes the earlier
\* strategy of that order); it raises ValueError for every input that is no token and
\* contains no phrase, the empty string included, and returns no value outside the
\* three strategies
C20_ParseStrategy ==
    calc.fn = "parse_strategy" /\ calc.output # None =>
        /\ \A k \in 1..3 : IsToken(calc.input, k) => Val(calc.output) = Returned(Strategies[k])
        /\ ~IsAnyToken(calc.input) => Val(calc.output) = FirstPhrase(calc.input)
        /\ Val(calc.output) \in {Returned(Strategies[k]) : k \in 1..3} \cup {ValueError}

\* an input with the phrases of BALANCED and of HIGH_PROFIT, in this order, was parsed
\* and gave HIGH_PROFIT
C20_TwoPhrases ==
    /\ calc.fn = "parse_strategy"
    /\ calc.input = StrategyPhrases[2] \o StrategyPhrases[1]
    /\ calc.output = Some(Returned(Strategies[1]))

---------------------------------------------------------------------------
(* The parsers *)

\* the text has the keyword kw at position i, Latin letters in either case
KeywordAt(text, i, kw) == MatchAt(Lower(text), i, Lower(kw))

\* the occurrence of kw at position i is part of an occurrence of a longer gender keyword
\* (MEN in WOMEN)
PartOfLonger(text, i, kw) ==
    \E g \in 1..3 : \E kw2 \in GenderKeywords[g] : \E j \in 1..Len(text) :
        /\ Len(kw2) > Len(kw) /\ KeywordAt(text, j, kw2)
        /\ j <= i /\ i + Len(kw) <= j + Len(kw2)

\* the text contains a keyword of the g-th gender category
NamesGender(text, g) ==
    \E kw \in GenderKeywords[g] : \E i \in 1..Len(text) :
        KeywordAt(text, i, kw) /\ ~PartOfLonger(text, i, kw)

\* C21: parse_gender gives one of three mutually exclusive categories by substring match:
\* a text with a keyword of exactly one category (Latin keywords in either case) gives
\* that category, a text with no keyword gives no category
C21_ParseGender ==
    calc.fn = "parse_gender" /\ calc.output # None =>
        /\ \A g \in 1..3 :
              (NamesGender(calc.input, g) /\ \A h \in 1..3 \ {g} : ~NamesGender(calc.input, h))
                  => Val(calc.output) = Some(GenderLabels[g])
        /\ (\A g \in 1..3 : ~NamesGender(calc.input, g)) => Val(calc.output) = None
        /\ Val(calc.output) \in {None} \cup {Some(GenderLabels[g]) : g \in 1..3}

\* the text contains, as a substring, a keyword of the g-th gender category
ContainsGender(text, g) == \E kw \in GenderKeywords[g] : Contains(Lower(text), Lower(kw))

\* C21 read by substrings alone, MEN in WOMEN counting as a keyword of the men's category
C21_ParseGenderBySubstring ==
    calc.fn = "parse_gender" /\ calc.output # None =>
        /\ \A g \in 1..3 :
              (ContainsGender(calc.input, g) /\ \A h \in 1..3 \ {g} : ~ContainsGender(calc.input, h))
                  => Val(calc.output) = Some(GenderLabels[g])
        /\ (\A g \in 1..3 : ~ContainsGender(calc.input, g)) => Val(calc.output) = None

\* C21, the failing case: the ladies' keyword WOMEN was parsed and gave the men's category
C21_WomenGivesMen ==
    /\ calc.fn = "parse_gender"
    /\ calc.input = <<"W", "O", "M", "E", "N">>
    /\ calc.output = Some(Some(GenderLabels[1]))

---------------------------------------------------------------------------
(* Unparseable input *)

\* no parser extracts a value from the text: it is no command, has no digit run, no
\* keyword, no edit and no strategy
Unparseable(text) ==
    /\ ~CommandTable[text].reset /\ ~CommandTable[text].sale
    /\ ParsePriceAndIdTable[text].purchase_price = None
    /\ ParsePriceAndIdTable[text].management_id = None
    /\ ParsePriceAndIdTable[text].era = None
    /\ ParseAllTable[text].measurements = EmptyMeasurements
    /\ ParseAllTable[text].purchase_price = None /\ ParseAllTable[text].management_id = None
    /\ ParseAllTable[text].gender = None /\ ParseAllTable[text].size = None
    /\ ParseAllTable[text].era = None
    /\ ParseInputTable[text].modifications = None /\ ParseInputTable[text].strategy = None
    /\ \A c \in Categories : ParseMeasurementsSimpleTable[text][c] = EmptyMeasurements

\* the replies that ask again for an input in its format
RePromptKinds == {"missing", "measurement_reprompt", "unrecognized", "sale_format"}

\* a text of u from which nothing is extracted is handled in this step
UnparseableStep(u) ==
    /\ now' = now
    /\ last'.op = "text"
    /\ Unparseable(last'.text)

\* C22: unparseable input never advances the state: in every state, a text from which no
\* value is extracted leaves the session in the state it was in when the message arrived
\* and is answered with a re-prompt
C22_UnparseableKeepsState ==
    [][\A u \in Users :
        UnparseableStep(u) =>
            /\ Val(sessions'[u]).state = Entry(u).state
            /\ ReplyKinds(last') # {} /\ ReplyKinds(last') \subseteq RePromptKinds]_vars

\* C22 for the states that wait for one kind of answer
C22_UnparseableKeepsWaitingState ==
    [][\A u \in Users :
        UnparseableStep(u) /\ Entry(u).state \in {"WAITING_MEASUREMENTS", "CONFIRMING"} =>
            /\ Val(sessions'[u]).state = Entry(u).state
            /\ ReplyKinds(last') # {} /\ ReplyKinds(last') \subseteq RePromptKinds]_vars

\* C22, a failing case: the text "hello" found the session COLLECTING with an image, a
\* price and an id after a failed category detection, and moved it to WAITING_MEASUREMENTS
C22_JunkAdvanced ==
    \E u \in Users :
        /\ HasSession(u) /\ Stored(u).state = "WAITING_MEASUREMENTS"
        /\ last.op = "text" /\ last.text = TxtJunk /\ last.pre_state = "COLLECTING"
        /\ Succeeded(last, "detect_category")

---------------------------------------------------------------------------
(* Expiry *)

\* the configured timeout in seconds, and the time since the stored session of u was
\* last updated
Timeout == SESSION_TIMEOUT_MINUTES * 60
Age(u) == now - Stored(u).updated_at

\* a message of u is handled in this step
MessageStep(u) == now' = now /\ last'.op \in {"text", "image"}

\* C23: a session is expired exactly when now - updatedAt is strictly greater than the
\* timeout, and update_session sets updatedAt to now: a stored session last updated at
\* most the timeout ago is handed out by get_session as it is, one updated longer ago is
\* handed out reset, and a handler that changes the session stores it with updatedAt = now
C23_ExpiredExactlyPastTimeout ==
    [][\A u \in Users :
        HasSession(u) =>
            /\ is_expired(Stored(u), now) <=> Age(u) > Timeout
            /\ Age(u) <= Timeout => Entry(u) = Stored(u)
            /\ Age(u) > Timeout => IsCleared(Entry(u)) /\ Entry(u).updated_at = now
            /\ update_session(Stored(u), now).updated_at = now
            /\ MessageStep(u) =>
                  \/ Val(sessions'[u]).updated_at = now
                  \/ sessions'[u] = sessions[u]]_vars

\* a session that waits for measurements was last updated exactly the timeout ago, one
\* second after the start, and get_session hands it out as it is
C23_AtTimeoutNotExpired ==
    \E u \in Users :
        /\ HasSession(u)
        /\ Stored(u).state = "WAITING_MEASUREMENTS"
        /\ Stored(u).updated_at = 1
        /\ Age(u) = Timeout
        /\ Entry(u) = Stored(u)

---------------------------------------------------------------------------
(* Isolation of the users' sessions *)

\* a message of the user a is handled in this step
HandledFor(a) == now' = now /\ last'.user_id = a /\ last' # last

\* the images the message handled in this step added: one when an image was downloaded
ImagesAdded(h) == IF h.op = "image" /\ Succeeded(h, "download_image") THEN 1 ELSE 0

\* C24: the sessions of different users are isolated: handling a message of the user a
\* (text, image, reset, sale command) leaves the stored session of every other user
\* unchanged in every field, the session stored for a is a's own, and a session created
\* for a holds no image but the one a sent
C24_UsersIsolated ==
    [][\A a \in TwoUsers :
        HandledFor(a) =>
            /\ \A b \in TwoUsers \ {a} : sessions'[b] = sessions[b]
            /\ sessions'[a] # None /\ Val(sessions'[a]).user_id = a
            /\ sessions[a] = None =>
                  Len(Val(sessions'[a]).image_paths) <= ImagesAdded(last')]_vars

\* the second user reset a session while the first user's session waits for measurements
\* with two images, a price and an id
C24_OneResetsOtherWaits ==
    /\ sessions["U1"] # None /\ sessions["U2"] # None
    /\ Val(sessions["U1"]).state = "WAITING_MEASUREMENTS"
    /\ Len(Val(sessions["U1"]).image_paths) = 2
    /\ Val(sessions["U1"]).purchase_price # None
    /\ last.user_id = "U2" /\ last.pre_state = "COLLECTING"
    /\ ReplyKinds(last) = {"reset_done"}
    /\ IsCleared(Val(sessions["U2"]))

---------------------------------------------------------------------------
(* Collecting: the compact parse and the keyworded parse of one message *)

\* a text of u that is no command is handled in IDLE or COLLECTING in this step
CollectingStep(u) ==
    /\ now' = now
    /\ last'.op = "text"
    /\ Entry(u).state \in {"IDLE", "COLLECTING"}
    /\ ~CommandTable[last'.text].reset /\ ~CommandTable[last'.text].sale

\* the compact parse and the keyworded parse of the message handled in this step
Compact == ParsePriceAndIdTable[last'.text]
Verbose == ParseAllTable[last'.text]

CompleteGroup(m) ==
    \/ \A i \in 1..4 : m[TopsFields[i]] # None
    \/ \A i \in 1..4 : m[PantsFields[i]] # None

\* C26: in IDLE or COLLECTING the measurement set of the keyworded parse replaces the
\* session's measurements only if it is complete for the upper-body group or for the
\* lower-body group; otherwise the session's measurements keep their value: a partial
\* keyworded message neither overwrites a stored set nor merges into it
C26_PartialMeasurementsIgnored ==
    [][\A u \in Users :
        CollectingStep(u) =>
            /\ Val(sessions'[u]).measurements # Entry(u).measurements
                  => /\ CompleteGroup(Verbose.measurements)
                     /\ Val(sessions'[u]).measurements = Some(Verbose.measurements)
            /\ ~CompleteGroup(Verbose.measurements)
                  => Val(sessions'[u]).measurements = Entry(u).measurements]_vars

\* the message with the length and width keywords alone was handled on a session that
\* holds the complete lower-body set, and the set is still that one
C26_PartialAfterComplete ==
    \E u \in Users :
        /\ HasSession(u) /\ last.op = "text" /\ last.text = TxtPartial
        /\ ParseAllTable[TxtPartial].measurements.length = Some(66)
        /\ ~CompleteGroup(ParseAllTable[TxtPartial].measurements)
        /\ Stored(u).measurements = Some(ParseAllTable[TxtVerbosePants].measurements)

\* C27: in IDLE or COLLECTING the keyworded parse fills every field the compact parse
\* left absent: when the compact parse of a message gives no management id (or no price)
\* and the keyworded parse gives one, the session's management id (or price) after the
\* message is the keyworded one
C27_KeywordedFillsGaps ==
    [][\A u \in Users :
        CollectingStep(u) =>
            /\ Compact.management_id = None /\ Verbose.management_id # None
                  => Val(sessions'[u]).management_id = Verbose.management_id
            /\ Compact.purchase_price = None /\ Verbose.purchase_price # None
                  => Val(sessions'[u]).purchase_price = Verbose.purchase_price]_vars

\* C27 for the fields the handler does take from the keyworded parse: gender and size
\* when found, era when the session has none after the compact parse
C27_KeywordedFillsGenderSizeEra ==
    [][\A u \in Users :
        CollectingStep(u) =>
            /\ Verbose.gender # None => Val(sessions'[u]).gender = Verbose.gender
            /\ Verbose.size # None => Val(sessions'[u]).size = Verbose.size
            /\ Compact.era = None /\ Entry(u).era = None /\ Verbose.era # None
                  => Val(sessions'[u]).era = Verbose.era]_vars

\* C27, the failing case: the message with the management-number keyword and 215 was
\* handled; the session has 215 as its purchase price and no management id
C27_KeywordIdBecamePrice ==
    \E u \in Users :
        /\ HasSession(u) /\ last.op = "text" /\ last.text = TxtKeywordId
        /\ ParseAllTable[TxtKeywordId].management_id = Some(<<"2", "1", "5">>)
        /\ Stored(u).purchase_price = Some(215)
        /\ Stored(u).management_id = None

---------------------------------------------------------------------------
(* The positional parsers *)

\* the value of the i-th digit run of the text, absent when the text has fewer runs
RunValue(text, i) ==
    IF i > Len(DigitRunStarts(text)) THEN None
    ELSE Some(IntOf(SubSeq(text, DigitRunStarts(text)[i],
                           DigitRunEnd(text, DigitRunStarts(text)[i]))))

\* the fields a category asks for, in its order
FieldOrder(category) ==
    IF category = "PANTS" THEN PantsFields
    ELSE IF category = "SETUP" THEN TopsFields \o PantsFields
    ELSE TopsFields

\* C28: parse_measurements_simple assigns the digit runs of the text by position in the
\* fixed order of the category (lower body: waist, inseam, hem width, rise; upper body:
\* length, width, shoulder, sleeve; set: the upper four, then the lower four): the i-th
\* field gets the i-th digit run, a field whose position exceeds the number of runs is
\* absent, the fields of a group the category does not ask for stay absent, and digit
\* runs beyond the needed count are ignored
C28_PositionalMeasurements ==
    calc.fn = "parse_measurements_simple" /\ calc.output # None =>
        /\ \A i \in 1..Len(FieldOrder(calc.input[2])) :
              Val(calc.output)[FieldOrder(calc.input[2])[i]] = RunValue(calc.input[1], i)
        /\ \A f \in DOMAIN EmptyMeasurements :
              (\A i \in 1..Len(FieldOrder(calc.input[2])) : FieldOrder(calc.input[2])[i] # f)
                  => Val(calc.output)[f] = None

\* a lower-body text of three digit runs was parsed: waist, inseam and hem width are the
\* three runs, the rise and the upper-body fields are absent
C28_ThreeRunsForPants ==
    /\ calc.fn = "parse_measurements_simple" /\ calc.output # None
    /\ calc.input[2] = "PANTS"
    /\ Len(DigitRunStarts(calc.input[1])) = 3
    /\ Val(calc.output).waist = Some(50) /\ Val(calc.output).inseam = Some(42)
    /\ Val(calc.output).hem_width = Some(20)
    /\ Val(calc.output).rise = None /\ Val(calc.output).length = None

\* the i-th digit run of the text in ASCII digits, and what follows it
RunText(text, i) ==
    SubSeq(HalfWidth(text), DigitRunStarts(text)[i], DigitRunEnd(text, DigitRunStarts(text)[i]))
AfterRun(text, i) ==
    SubSeq(Lower(text), DigitRunEnd(text, DigitRunStarts(text)[i]) + 1, Len(text))
StartsWith(text, prefix) == MatchAt(text, 1, prefix)

\* the era a third digit run stands for: two digits and "s", four digits and the era
\* word, two digits and the era word; no era in any other shape
EraOfThird(text) ==
    IF Len(DigitRunStarts(text)) < 3 THEN None
    ELSE IF Len(RunText(text, 3)) = 2 /\ StartsWith(AfterRun(text, 3), <<"s">>)
    THEN Some(RunText(text, 3) \o <<"s">>)
    ELSE IF Len(RunText(text, 3)) = 4 /\ StartsWith(AfterRun(text, 3), EraSuffix)
    THEN Some(RunText(text, 3) \o EraSuffix)
    ELSE IF Len(RunText(text, 3)) = 2 /\ StartsWith(AfterRun(text, 3), EraSuffix)
    THEN Some(RunText(text, 3) \o <<"s">>)
    ELSE None

---------------------------------------------------------------------------
(* The confirmation reply *)

\* the lines of a reply, each without its surrounding whitespace
InputLines(text) == [i \in 1..Len(SplitLines(text)) |-> Strip(SplitLines(text)[i])]

\* the strategies a line names: by being one of the tokens, or by containing a phrase
NamedBy(line) ==
    {Strategies[k] : k \in {j \in 1..3 : line \in {<<t>> : t \in StrategyTokens[j]} \/ HasPhrase(line, j)}}

\* an edit line: a number, whitespace and a value
NumberEnds(line) ==
    {e \in 1..(Len(line) - 2) : (\A j \in 1..e : IsDigit(line[j])) /\ IsSpace(line[e + 1])}
IsEdit(line) == NumberEnds(line) # {}
EditNumber(line) == IntOf(SubSeq(line, 1, CHOOSE e \in NumberEnds(line) : TRUE))
EditValue(line) == Strip(SubSeq(line, (CHOOSE e \in NumberEnds(line) : TRUE) + 1, Len(line)))

\* the lines of the reply that name a strategy, and its edit lines for the n-th field
StrategyLines(text) == {i \in DOMAIN InputLines(text) : NamedBy(InputLines(text)[i]) # {}}
EditLines(text, n) ==
    {i \in DOMAIN InputLines(text) : IsEdit(InputLines(text)[i]) /\ EditNumber(InputLines(text)[i]) = n}
Last(S) == CHOOSE i \in S : \A j \in S : j <= i
EditedFields(text) == {n \in 1..8 : EditLines(text, n) # {}}

\* an edit line whose value contains no strategy phrase
PlainEdit(line) == IsEdit(line) /\ \A k \in 1..3 : ~HasPhrase(EditValue(line), k)

\* the reply without its plain edit lines
RECURSIVE JoinKept(_)
JoinKept(lines) ==
    IF lines = << >> THEN << >>
    ELSE IF PlainEdit(Head(lines)) THEN JoinKept(Tail(lines))
    ELSE Head(lines) \o <<"\n">> \o JoinKept(Tail(lines))

\* C30: parse_input reads a reply line by line: the strategy is one the last line naming
\* a strategy names, and absent when no line names one; an edit is recorded exactly
\* for the fields 1 to 8 that an edit line numbers, with the non-empty value of the
\* last such line; a reply with no such line gives an absent edit map; and the edit
\* lines whose value contains no strategy phrase have no part in the strategy
C30_ParseInputByLines ==
    calc.fn = "parse_input" /\ calc.output # None =>
        LET out == Val(calc.output)
            text == calc.input
        IN  /\ IF StrategyLines(text) = {} THEN out.strategy = None
               ELSE /\ out.strategy # None
                    /\ Val(out.strategy) \in NamedBy(InputLines(text)[Last(StrategyLines(text))])
            /\ IF EditedFields(text) = {} THEN out.modifications = None
               ELSE /\ out.modifications # None
                    /\ DOMAIN Val(out.modifications) = {FIELD_MAPPING[n] : n \in EditedFields(text)}
                    /\ \A n \in EditedFields(text) :
                          /\ Val(out.modifications)[FIELD_MAPPING[n]] =
                                EditValue(InputLines(text)[Last(EditLines(text, n))])
                          /\ Val(out.modifications)[FIELD_MAPPING[n]] # << >>
            /\ \A i \in StrategyLines(text) : ~PlainEdit(InputLines(text)[i])
            /\ parse_input(JoinKept(InputLines(text))).strategy = out.strategy

\* a reply of three lines was read: the second field set to the second phrase, then to
\* the third phrase, then a lone A; the later edit and the later strategy stay
C30_LaterLineWins ==
    /\ calc.fn = "parse_input"
    /\ calc.input = <<"2", " ">> \o StrategyPhrases[2] \o <<"\n", "2", " ">> \o StrategyPhrases[3]
                    \o <<"\n", "A">>
    /\ calc.output = Some([modifications |-> Some("category" :> StrategyPhrases[3]),
                           strategy |-> Some("HIGH_PROFIT")])

---------------------------------------------------------------------------
(* The frame of an edit *)

\* the category a label stands for, if any
LabelledCategories(value) == {c \in Categories : CategoryLabel(c) = value}

\* the fields an edit stores as they are, and the fields no edit reaches
VerbatimFields == {"brand", "item_type", "gender", "size", "color"}
UntouchedFields == {"material", "condition", "confidence"}

\* C31: apply_modifications changes only the fields the edit map names: a category edit
\* with one of the three labels sets that category and any other value leaves the category
\* as it was; a design edit with a word for "none" clears the design and any other value
\* is stored; brand, item type, gender, size, color and era edits store the value as it
\* is; material, condition and confidence never change
C31_OnlyNamedFieldsChange ==
    calc.fn = "apply_modifications" /\ calc.output # None =>
        LET f == calc.input[1]
            m == calc.input[2]
            out == Val(calc.output)
        IN  /\ DOMAIN out = DOMAIN f
            /\ \A n \in DOMAIN f \ DOMAIN m : out[n] = f[n]
            /\ \A n \in UntouchedFields : out[n] = f[n]
            /\ \A n \in VerbatimFields \cap DOMAIN m : out[n] = m[n]
            /\ "era" \in DOMAIN m => out.era = Some(m.era)
            /\ "design" \in DOMAIN m =>
                  out.design = IF m.design \in DesignNoneWords THEN None ELSE Some(m.design)
            /\ "category" \in DOMAIN m =>
                  out.category = IF LabelledCategories(m.category) = {} THEN f.category
                                 ELSE CHOOSE c \in LabelledCategories(m.category) : TRUE
            /\ (DOMAIN m = {"category"} /\ LabelledCategories(m.category) = {}) => out = f

\* a category edit whose value is no label was applied to a summary of the lower-body
\* category, and the summary came back as it was
C31_UnknownCategoryIgnored ==
    /\ calc.fn = "apply_modifications" /\ calc.output # None
    /\ DOMAIN calc.input[2] = {"category"}
    /\ LabelledCategories(calc.input[2].category) = {}
    /\ calc.input[1].category = "PANTS"
    /\ Val(calc.output) = calc.input[1]

---------------------------------------------------------------------------
(* Complete measurements *)

\* all four fields of the group are present
GroupPresent(m, names) == \A n \in names : m[n] # None
UpperBody(m) == GroupPresent(m, {"length", "width", "shoulder", "sleeve"})
LowerBody(m) == GroupPresent(m, {"waist", "inseam", "hem_width", "rise"})

\* complete for the category: the upper-body group, the lower-body group, or both
CompleteFor(m, category) ==
    CASE category = "TOPS" -> UpperBody(m)
      [] category = "PANTS" -> LowerBody(m)
      [] category = "SETUP" -> UpperBody(m) /\ LowerBody(m)

\* the checks agree with the definition on the measurements m and the category
ChecksAgree(out, m, category) ==
    /\ out.tops = UpperBody(m)
    /\ out.pants = LowerBody(m)
    /\ out.required = CompleteFor(m, category)

\* C32: a measurement set is complete for upper-body iff length, width, shoulder and
\* sleeve are all present, for lower-body iff waist, inseam, hem width and rise are all
\* present, for the combined set iff both; the checks of the state machine agree with
\* this for every assignment of the eight fields, the value 0 included
C32_CompleteIffAllPresent ==
    calc.fn = "completeness" /\ calc.output # None =>
        ChecksAgree(Val(calc.output), calc.input[1], calc.input[2])

\* C32 without the value 0: the checks agree with the definition on every assignment
\* whose present fields are not zero
C32_CompleteIffAllPresentNonZero ==
    (/\ calc.fn = "completeness" /\ calc.output # None
     /\ \A n \in DOMAIN calc.input[1] : calc.input[1][n] # Some(0)) =>
        ChecksAgree(Val(calc.output), calc.input[1], calc.input[2])

\* the upper-body check was made on a set with all four upper-body fields present, the
\* length being 0, and it answered incomplete
C32_ZeroLengthIncomplete ==
    /\ calc.fn = "completeness" /\ calc.output # None
    /\ calc.input[2] = "TOPS"
    /\ calc.input[1].length = Some(0)
    /\ \A n \in {"width", "shoulder", "sleeve"} : calc.input[1][n] = Some(60)
    /\ Val(calc.output).required = FALSE
    /\ Val(calc.output).tops = FALSE

---------------------------------------------------------------------------
(* Recording a sale in the ledger *)

\* the data rows of a sheet: the rows below the header, all rows when there is no header
DataRows(worksheet) ==
    IF worksheet # << >> /\ worksheet[1].management_id = HeaderId THEN Tail(worksheet)
    ELSE worksheet

\* the cell holds the id: as typed, or read back as a float
HoldsId(cell, management_id) == cell = management_id \/ cell = management_id \o <<".", "0">>

\* the rows of the ledger that hold the id
RowsOf(rows, management_id) ==
    {i \in DOMAIN rows : HoldsId(rows[i].management_id, management_id)}
First(S) == CHOOSE i \in S : \A j \in S : i <= j

\* the number in a purchase price cell, 0 for an empty cell
CellNumber(cell) == IF cell = << >> THEN 0 ELSE IntOf(cell)

\* c is the floor of a tenth of the price
IsFloorOfTenth(c, price) == c * 10 <= price /\ price < (c + 1) * 10

---------------------------------------------------------------------------
(* After the listing *)

\* the calls of h to the collaborator called name
CallsTo(h, name) == {i \in 1..Len(h.calls) : h.calls[i].name = name}

\* the image upload or the ledger save of h failed: an exception, no URL, a false result
UploadFailed(h) == \E i \in CallsTo(h, "upload_image") : h.calls[i].result \in {"none", "raise"}
SaveFailed(h) == \E i \in CallsTo(h, "save_product") : h.calls[i].result \in {"false", "raise"}

\* C34: once the listing has been generated and replied, a failure of the image upload
\* or of the ledger save, by exception or by a false result, does not block the session:
\* the session is reset to IDLE with its images discarded, the stored images are
\* cleared, and neither call is made a second time
C34_FailuresDoNotBlock ==
    [][\A u \in Users :
          (ConfirmationStep(u) /\ "result" \in ReplyKinds(last'))
             => /\ Cardinality(CallsTo(last', "upload_image")) <= 1
                /\ Cardinality(CallsTo(last', "save_product")) = 1
                /\ (UploadFailed(last') \/ SaveFailed(last'))
                      => /\ IsCleared(Val(sessions'[u]))
                         /\ Val(sessions'[u]).state = "IDLE"
                         /\ Val(sessions'[u]).image_paths = << >>
                         /\ Val(sessions'[u]).product = None
                         /\ CallsTo(last', "clear_user_images") # {}
                         /\ ~last'.raised
                         /\ ReplyKinds(last') = {"result"}]_vars

\* the listing was replied, the upload raised and the ledger save returned false, and
\* the session is back in IDLE without images
C34_BothFailedAndReset ==
    \E u \in Users : /\ HasSession(u) /\ Stored(u).state = "IDLE"
                     /\ Stored(u).image_paths = << >>
                     /\ last.pre_state = "CONFIRMING"
                     /\ "result" \in ReplyKinds(last)
                     /\ Raised(last, "upload_image")
                     /\ \E i \in CallsTo(last, "save_product") : last.calls[i].result = "false"

---------------------------------------------------------------------------
(* What the later states rest on *)

\* the session has an image, a price that is present and not zero, and an id
HasIntake(s) ==
    /\ Len(s.image_paths) >= 1
    /\ s.purchase_price # None /\ Val(s.purchase_price) # 0
    /\ s.management_id # None

\* C35: with messages handled one at a time, in every reachable state a session in
\* WAITING_MEASUREMENTS or CONFIRMING has at least one image, a purchase price that is
\* present and not zero and a management id, and a session in CONFIRMING has
\* measurements complete for at least one category
C35_LaterStatesHaveIntake ==
    \A u \in Users :
        HasSession(u) =>
            /\ Stored(u).state \in {"WAITING_MEASUREMENTS", "CONFIRMING"} => HasIntake(Stored(u))
            /\ Stored(u).state = "CONFIRMING" => CompleteForSomeCategory(Stored(u).measurements)

\* a session reached CONFIRMING through the measurement prompt: the category was
\* detected and the four values were sent after it
C35_ConfirmingAfterPrompt ==
    \E u \in Users : /\ HasSession(u) /\ Stored(u).state = "CONFIRMING"
                     /\ last.pre_state = "WAITING_MEASUREMENTS"
                     /\ Stored(u).detected_category # None
                     /\ HasIntake(Stored(u))
                     /\ CompleteForSomeCategory(Stored(u).measurements)

---------------------------------------------------------------------------
(* One detection between two resets *)

\* the message handled in this step reset the session: the reset command, the sale
\* command, or a completed generation (expiry shows in the session handed out)
ResetStep == ReplyKinds(last') \cap {"reset_done", "sale_prompt", "result"} # {}

\* C36: between two resets of a session category detection succeeds at most once: a
\* detected category is set only by a successful detection on a session that has none,
\* and is not reassigned until the session is reset by command, expiry, sale command or
\* completed generation; and a session that has been in CONFIRMING, which shows in its
\* feature summary, never returns to WAITING_MEASUREMENTS before a reset
C36_DetectedOnce ==
    [][\A u \in Users :
          LET pre == Entry(u)
              post == Val(sessions'[u])
          IN  MessageStep(u) =>
                /\ post.state = "CONFIRMING" => post.features # None
                /\ ~ResetStep =>
                      /\ pre.detected_category # None =>
                            /\ post.detected_category = pre.detected_category
                            /\ ~Succeeded(last', "detect_category")
                      /\ post.detected_category # pre.detected_category =>
                            /\ Succeeded(last', "detect_category")
                            /\ post.state = "WAITING_MEASUREMENTS"
                      /\ pre.features # None =>
                            /\ post.features # None
                            /\ post.state # "WAITING_MEASUREMENTS"]_vars

\* a session whose generation had failed was analysed again on the next message and is
\* back in CONFIRMING with the category detected before, without a second detection
C36_AnalysedAgainNotDetected ==
    \E u \in Users : /\ HasSession(u) /\ Stored(u).state = "CONFIRMING"
                     /\ last.pre_state = "GENERATING"
                     /\ Stored(u).detected_category # None
                     /\ Succeeded(last, "analyze")
                     /\ ~Succeeded(last, "detect_category")

---------------------------------------------------------------------------
(* The order of the suggested prices *)

\* C37: every price suggestion generate_price_suggestion returns satisfies minimum price
\* <= lowest acceptable <= expected price <= start price, whatever three prices the
\* inference service answered, the minimum price being that of the purchase price
C37_PricesOrdered ==
    (calc.fn = "generate_price_suggestion" /\ calc.output # None
     /\ ~Val(calc.output).raised) =>
        LET p == Val(calc.output).value
        IN  /\ p.minimum_price <= p.lowest_acceptable
            /\ p.lowest_acceptable <= p.expected_price
            /\ p.expected_price <= p.start_price
            /\ SmallestMultipleOfTen(p.minimum_price, calc.input.purchase_price)

\* the service answered the prices in reverse order around the minimum price 1760 of
\* the purchase price 880 (start 0, expected 1750, lowest 1770), and the suggestion has
\* all three at 1770
C37_ReversedAnswerOrdered ==
    /\ calc.fn = "generate_price_suggestion" /\ calc.output # None
    /\ calc.input.purchase_price = 880
    /\ calc.input.answered = [lowest_acceptable |-> Some(1770), expected_price |-> Some(1750),
                              start_price |-> Some(0)]
    /\ Val(calc.output) = Returned([minimum_price |-> 1760, start_price |-> 1770,
                                    expected_price |-> 1770, lowest_acceptable |-> 1770])

---------------------------------------------------------------------------
(* Concurrent handlers and the confirmation state *)

\* C38: when two handlers of one user run concurrently, a reset arriving while feature
\* analysis for an earlier message is in flight, every interleaving ends in a state
\* where CONFIRMING implies a feature summary, at least one image, a price and an id
C38_ConfirmingHasIntake ==
    \A u \in Users :
        (HasSession(u) /\ pending[u] = None /\ Stored(u).state = "CONFIRMING")
            => /\ Stored(u).features # None
               /\ Len(Stored(u).image_paths) >= 1
               /\ Stored(u).purchase_price # None
               /\ Stored(u).management_id # None

\* the analysis that was in flight when the reset cleared the session has finished: the
\* session is CONFIRMING with a feature summary and without image, price or id
C38_ConfirmingWithoutIntake ==
    \E u \in Users :
        /\ HasSession(u) /\ pending[u] = None
        /\ Stored(u).state = "CONFIRMING"
        /\ Stored(u).features # None
        /\ Len(Stored(u).image_paths) = 0
        /\ Stored(u).purchase_price = None /\ Stored(u).management_id = None
        /\ last.pre_state = "IDLE"
        /\ Succeeded(last, "analyze")

---------------------------------------------------------------------------
(* Later information and the collected price and id *)

\* the messages that carry only gender, size, era or keyworded measurements
InformationTexts == {TxtGender, TxtVerbose, TxtPartial, TxtVerbosePants}

\* C39: in IDLE or COLLECTING, once purchase price and management id have been
\* collected, a later text that carries only gender, size, era or keyworded measurement
\* information, no price and no management id, leaves price and id unchanged
C39_PriceAndIdKept ==
    [][\A u \in Users :
          (/\ CollectingStep(u)
           /\ last'.text \in InformationTexts
           /\ Entry(u).purchase_price # None /\ Entry(u).management_id # None)
             => /\ Val(sessions'[u]).purchase_price = Entry(u).purchase_price
                /\ Val(sessions'[u]).management_id = Entry(u).management_id]_vars

\* the message with the men's keyword, L and 90s was handled after "880 222": the
\* price is now 90 and the id still 222
C39_EraBecamePrice ==
    \E u \in Users : /\ HasSession(u)
                     /\ last.text = TxtGender
                     /\ last.pre_state = "COLLECTING"
                     /\ Stored(u).purchase_price = Some(90)
                     /\ Stored(u).management_id = Some(<<"2", "2", "2">>)
                     /\ Stored(u).era = Some(<<"9", "0", "s">>)

====
